---- MODULE Spec2Model ----
(***************************************************************************)
(* Quality workflow engine of millpoint-qa (src/app.py): the job           *)
(* lifecycle (workflow_stage / completed_at), the exit-control sampler     *)
(* with its lot verdict, the audit trail, the error-report flow, the part  *)
(* registry and the measurement reports, modelled over the tables of       *)
(* init_db.  Each subsystem has its own specification over these tables.   *)
(*                                                                         *)
(* A nullable column holds NULL (the empty tuple) or a one-element tuple   *)
(* <<v>>.  A request handler is one action; the response it gives (flash   *)
(* category / status code) is kept in `last` together with its inputs.     *)
(***************************************************************************)
EXTENDS Integers, Sequences, FiniteSets, TLC

VARIABLES
    jobs,                   \* table jobs, row id = index
    exit_controls,          \* table exit_controls, row id = index
    exit_control_samples,   \* table exit_control_samples, row id = index
    audit_logs,             \* table audit_logs, in insertion order
    last,                   \* the request handled last and its response
    reqs,                   \* record_sample requests in flight, statement by statement
    users,                  \* table users, in insertion order
    material_controls,      \* table material_controls, row id = index
    external_processes,     \* table external_processes, row id = index
    error_reports,          \* table error_reports, row id = index
    notifications,          \* table notifications, in insertion order
    sampling,               \* a call of calculate_exit_control_samples and its result
    parts,                  \* table parts, row id = index
    resolving,              \* get_or_create_part calls in flight, statement by statement
    job_dimensions,         \* table job_dimensions, row id = index
    measurement_reports,    \* table measurement_reports, row id = index
    measurements,           \* table measurements, row id = index
    evaluation              \* a call of calculate_pass_fail and its result

vars == <<jobs, exit_controls, exit_control_samples, audit_logs, last, reqs,
          users, material_controls, external_processes, error_reports, notifications,
          sampling, parts, resolving, job_dimensions, measurement_reports, measurements,
          evaluation>>

\* the tables of the error-report flow, and those of the exit-control flow
qualityVars == <<users, material_controls, external_processes, error_reports,
                 notifications>>
exitVars == <<exit_controls, exit_control_samples, reqs>>
\* the part registry, and the measurement reports with the tolerance evaluator
registryVars == <<parts, resolving>>
measureVars == <<job_dimensions, measurement_reports, measurements, evaluation>>

(***************************************************************************)
(* Bounds of the model                                                     *)
(***************************************************************************)
MaxJobs == 1
MaxExitControls == 1
MaxAudit == 3
\* largest lot quantity calculate_exit_control_samples is applied to
MaxLotQuantity == 60
\* rows of material_controls and of error_reports, and rows of audit_logs up
\* to which the handlers creating them and error_report_update are followed
MaxMaterialControls == 1
MaxErrorReports == 1
MaxErrorAudit == 3
MaxStatusAudit == 5
\* rows of parts up to which the part registry is followed
MaxParts == 2
\* rows of notifications up to which material_control_status is followed
MaxMaterialNotices == 2
\* rows of measurement_reports
MaxReports == 1
\* calculate_pass_fail is applied to nominal values of 0.0 .. 0.8, tolerances
\* of 0.0 .. 0.2 either way and actual values of 0.0 .. 1.1, in tenths
MaxNominalTenths == 8
MaxToleranceTenths == 2

\* logged-in users issuing the requests (current_user.id)
Users == {"u1"}
\* form field quantity of job_create (0: absent or zero)
JobQuantities == {0, 2}
\* form field lot_quantity of exit_control_create (0: absent or zero)
LotQuantities == {0, 1}
\* the three check boxes of a sample form, 1 = ticked
CheckInputs == {<<1, 1, 1>>, <<0, 1, 1>>}
\* form field stage of job_update_stage: the eight stages and two others
OtherStageInputs == {"", "shipped"}
\* parsed tokens of form field part_numbers of exit_control_add_samples
AddInputs == {<<>>, <<2>>, <<0, 3>>}

\* inputs of SpecLot: one user, jobs of six parts
LotUsers == {"u1"}
LotJobQuantities == {6}
LotStageInputs == {"exit_control", "in_process", "shipped"}
LotCheckInputs == {<<1, 1, 1>>}
LotAddInputs == {<<>>, <<6>>, <<3, 6, 6>>, <<0, 7>>}
\* inputs of SpecChecks: jobs of one part, every combination of the check boxes
CheckJobQuantities == {1}
CheckStageInputs == {"exit_control"}
AllCheckInputs == {<<d, v, f>> : d \in {0, 1}, v \in {0, 1}, f \in {0, 1}}
\* inputs of SpecPlan: lots of six parts (the job's quantity) and of sixteen
PlanLotQuantities == {0, 16}
PlanAddInputs == {<<>>, <<6>>, <<3, 6, 6>>, <<0, 7>>, <<16, 17>>}
\* inputs of SpecErr: jobs of two parts
ErrJobQuantities == {2}
\* form fields material_type, status and supplier_id of material_control_create
MaterialTypeInputs == {"", "steel"}
MaterialStatusInputs == {"pending", "rejected"}
SupplierInputs == {<<>>, <<"s1">>}
\* form field description of internal_error_report
DescriptionInputs == {"", "scratch"}
\* form field action of error_report_update ("": absent)
ErrorActions == {"update", "resolve", "close", "reopen", "investigate", ""}
\* the call of create_notification that raises (0: none does)
NotifyFailures == {0, 1}
\* the users admin_toggle_user is called by and for
ToggleCallers == {"admin"}
ToggleUserIds == {"qm"}
\* get_or_create_part called on its own: part number, revision (None as <<>>,
\* '' or A) and description (None, '' or a text)
PartNumbers == {"X-1"}
PartRevisions == {<<>>, <<"">>, <<"A">>}
PartDescriptions == {<<>>, <<"">>, <<"d">>, <<"d2">>}
\* form fields part_number, part_revision and part_description of job_create
\* and job_edit, the quantity of job_edit (None: absent or not a number)
FormPartNumbers == {"", "X-1"}
FormRevisions == {"", "A"}
FormDescriptions == {"", "d2"}
EditQuantities == {<<>>, <<3>>}
\* form field status of the material-control and external-process forms
StatusInputs == {"pending", "approved", "rejected", "sent", "scrapped"}
\* the dimension rows of the job form: none, or a length of 1.0 +0.1/-0.1 mm
\* and a go/nogo thread
DimensionForms ==
    {<<>>,
     <<[name |-> "Length", nominal |-> <<[neg |-> FALSE, num |-> 10, den |-> 10]>>,
        tol_plus |-> <<[neg |-> FALSE, num |-> 1, den |-> 10]>>,
        tol_minus |-> <<[neg |-> TRUE, num |-> 1, den |-> 10]>>, unit |-> "mm"],
       [name |-> "Thread", nominal |-> <<>>, tol_plus |-> <<>>, tol_minus |-> <<>>,
        unit |-> "go/nogo"]>>}
\* form field actual_<id> of a measurement form: empty, 1.0, 1.2, or a text
\* that is no number
ActualInputs ==
    {<<>>, <<[neg |-> FALSE, num |-> 10, den |-> 10]>>,
     <<[neg |-> FALSE, num |-> 12, den |-> 10]>>, <<[text |-> "abc"]>>}
\* the fields actual_<id> of a form, one for each dimension of the job: the
\* thread is measured with 1, with 0 or not at all
ActualForms == {<<a, t>> : a \in ActualInputs,
                          t \in {<<>>, <<[neg |-> FALSE, num |-> 10, den |-> 10]>>,
                                 <<[neg |-> FALSE, num |-> 0, den |-> 10]>>}}
\* form field lot_quantity of exit_control_create in SpecEmptyLot: absent, a
\* lot of one part, and a negative number
EmptyLotQuantities == {0, 1, 0 - 1}
\* the units of a dimension
DimensionUnits == {"mm", "go/nogo"}
\* the two concurrent record_sample requests
ReqIds == {"r1", "r2"}
\* the two concurrent calls of get_or_create_part
CallIds == {"c1", "c2"}

(***************************************************************************)
(* SQL values                                                              *)
(***************************************************************************)
NULL == <<>>
CURRENT_TIMESTAMP == <<"now">>

Min(a, b) == IF a < b THEN a ELSE b

\* a ninth stage let through
valid_stages_shipped ==
    <<"po_receipt", "revision_check", "material_control", "in_process",
      "external_process", "exit_control", "complete", "on_hold", "shipped">>

\* valid_stages of job_update_stage
valid_stages == <<"po_receipt", "revision_check", "material_control", "in_process",
                  "external_process", "exit_control", "complete", "on_hold">>

InSeq(x, s) == \E i \in 1..Len(s) : s[i] = x

StageInputs == {valid_stages[i] : i \in 1..Len(valid_stages)} \cup OtherStageInputs

NoRequest == [op |-> "none", user |-> "", job |-> 0, ec |-> 0, sample |-> 0,
              part |-> 0, arg |-> <<>>, result |-> ""]

Idle == [pc |-> "idle", ec_id |-> 0, sample_id |-> 0, checks |-> <<>>,
         all_inspected |-> FALSE, all_passed |-> FALSE, job_id |-> 0]

(***************************************************************************)
(* log_audit: one row appended to audit_logs, user_id is the current user  *)
(***************************************************************************)
log_audit(logs, user, action, entity_type, entity_id, description, changes) ==
    Append(logs, [user_id |-> user, action |-> action, entity_type |-> entity_type,
                  entity_id |-> entity_id, description |-> description,
                  changes |-> changes])

(***************************************************************************)
(* calculate_exit_control_samples: first 5 + every 10th from 15            *)
(***************************************************************************)
RECURSIVE EveryTenth(_, _)
EveryTenth(part, lot_quantity) ==
    IF part <= lot_quantity
    THEN <<part>> \o EveryTenth(part + 10, lot_quantity)
    ELSE <<>>

\* every 10th part counted from part 10
calculate_exit_control_samples_from10(lot_quantity) ==
    [i \in 1..(Min(6, lot_quantity + 1) - 1) |-> i]
        \o (IF lot_quantity > 5 THEN EveryTenth(10, lot_quantity) ELSE <<>>)

calculate_exit_control_samples(lot_quantity) ==
    [i \in 1..(Min(6, lot_quantity + 1) - 1) |-> i]
        \o (IF lot_quantity > 5 THEN EveryTenth(15, lot_quantity) ELSE <<>>)

(***************************************************************************)
(* Queries                                                                 *)
(***************************************************************************)
\* SELECT * FROM exit_control_samples WHERE exit_control_id = ?  (row ids)
SamplesOf(smps, ec_id) == {i \in 1..Len(smps) : smps[i].exit_control_id = ec_id}

all_inspected(smps, ec_id) == \A i \in SamplesOf(smps, ec_id) : smps[i].overall_pass # NULL
all_passed(smps, ec_id) == \A i \in SamplesOf(smps, ec_id) : smps[i].overall_pass = <<1>>

(***************************************************************************)
(* Python floats (IEEE 754 binary64, round to nearest, ties to even).  A   *)
(* float is the sign and the magnitude bits * 2^exp, bits being the binary *)
(* digits of an odd integer of at most 53 digits, most significant first   *)
(* (<<>> for zero).  Values stay far from the exponent range's ends, so    *)
(* there are no subnormals, infinities or NaNs.                            *)
(***************************************************************************)
Precision == 53

Zero == [neg |-> FALSE, bits |-> <<>>, exp |-> 0]

Zeros(n) == [i \in 1..n |-> 0]

\* the places of the digits 1 of bits
Ones(bits) == {i \in 1..Len(bits) : bits[i] = 1}

Lowest(places) == CHOOSE i \in places : \A j \in places : i <= j
Highest(places) == CHOOSE i \in places : \A j \in places : j <= i

\* bits without the zeros it begins with
DropLeading(bits) ==
    IF Ones(bits) = {} THEN <<>> ELSE SubSeq(bits, Lowest(Ones(bits)), Len(bits))

\* the float of magnitude bits * 2^exp, bits being at most 53 digits between
\* its first and its last 1
Canonical(neg, bits, exp) ==
    IF Ones(bits) = {}
    THEN Zero
    ELSE [neg |-> neg,
          bits |-> SubSeq(bits, Lowest(Ones(bits)), Highest(Ones(bits))),
          exp |-> exp + (Len(bits) - Highest(Ones(bits)))]

\* bits + 1, of the same length or one digit longer
Increment(bits) ==
    LET zeros == {i \in 1..Len(bits) : bits[i] = 0}
    IN  IF zeros = {}
        THEN <<1>> \o Zeros(Len(bits))
        ELSE [i \in 1..Len(bits) |->
                 IF i < Highest(zeros) THEN bits[i]
                 ELSE IF i = Highest(zeros) THEN 1 ELSE 0]

\* bits * 2^exp (plus a non-zero remainder below the last digit when sticky)
\* rounded to 53 digits, to the nearest, the tie to the even one
RoundNearestEven(neg, bits, exp, sticky) ==
    LET digits == DropLeading(bits)
        extra == Len(digits) - Precision
        kept == SubSeq(digits, 1, Precision)
        rest == SubSeq(digits, Precision + 1, Len(digits))
        above == \/ sticky
                 \/ \E i \in 2..Len(rest) : rest[i] = 1
    IN  IF extra <= 0
        THEN Canonical(neg, digits, exp)
        ELSE IF rest[1] = 1 /\ (above \/ kept[Precision] = 1)
        THEN Canonical(neg, Increment(kept), exp + extra)
        ELSE Canonical(neg, kept, exp + extra)

\* the binary digits of a natural number, most significant first
RECURSIVE BitsOf(_)
BitsOf(n) == IF n = 0 THEN <<>> ELSE BitsOf(n \div 2) \o <<n % 2>>

\* the digits after the binary point kept of a decimal numeral: enough for
\* 54 digits from the first 1 on when the numeral is 0 or at least 1/1000
FractionDigits == 64

\* 2^n modulo den
RECURSIVE Pow2Mod(_, _)
Pow2Mod(n, den) ==
    IF n = 0
    THEN 1 % den
    ELSE LET half == Pow2Mod(n \div 2, den)
         IN  (half * half * (IF n % 2 = 1 THEN 2 ELSE 1)) % den

\* what is left of r / den (r < den) below its first n binary digits, as a
\* numerator over den
Remainder(n, r, den) == (r * Pow2Mod(n, den)) % den

\* float() of the decimal numeral num / den with its sign (den a power of 10
\* up to 1000): the digits of the long division by den, rounded
float(decimal) ==
    LET r == decimal.num % decimal.den
        fraction == [i \in 1..FractionDigits |->
                        IF 2 * Remainder(i - 1, r, decimal.den) >= decimal.den
                        THEN 1
                        ELSE 0]
    IN  RoundNearestEven(decimal.neg,
                         BitsOf(decimal.num \div decimal.den) \o fraction,
                         0 - FractionDigits,
                         Remainder(FractionDigits, r, decimal.den) # 0)

\* the digits of two magnitudes over the same exponent and of the same length
Aligned(a, b) ==
    LET exp == IF a.exp < b.exp THEN a.exp ELSE b.exp
        x == a.bits \o Zeros(a.exp - exp)
        y == b.bits \o Zeros(b.exp - exp)
        n == IF Len(x) > Len(y) THEN Len(x) ELSE Len(y)
    IN  [x |-> Zeros(n - Len(x)) \o x, y |-> Zeros(n - Len(y)) \o y, exp |-> exp]

\* x + y of two digit sequences of the same length, one digit longer: the
\* carry into a place comes from the nearest place below it where the
\* digits are not 0 and 1
AddBits(x, y) ==
    LET n == Len(x)
        carry(i) == LET stops == {j \in (i + 1)..n : x[j] + y[j] # 1}
                    IN  IF stops = {}
                        THEN 0
                        ELSE (x[Lowest(stops)] + y[Lowest(stops)]) \div 2
    IN  <<carry(0)>> \o [i \in 1..n |-> (x[i] + y[i] + carry(i)) % 2]

\* x - y of two digit sequences of the same length, x >= y: the borrow from
\* a place comes from the nearest place below it where the digits differ
SubBits(x, y) ==
    LET n == Len(x)
        borrow(i) == LET stops == {j \in (i + 1)..n : x[j] # y[j]}
                     IN  IF stops = {}
                         THEN 0
                         ELSE IF x[Lowest(stops)] < y[Lowest(stops)] THEN 1 ELSE 0
    IN  [i \in 1..n |-> (x[i] - y[i] - borrow(i) + 2) % 2]

\* -1, 0 or 1 as x is below, equal to or above y (same length)
CompareBits(x, y) ==
    LET differing == {i \in 1..Len(x) : x[i] # y[i]}
    IN  IF differing = {}
        THEN 0
        ELSE IF x[Lowest(differing)] < y[Lowest(differing)] THEN 0 - 1 ELSE 1

CompareMagnitude(a, b) == LET al == Aligned(a, b) IN CompareBits(al.x, al.y)

\* a < b, a = b, a <= b of two floats
FloatLess(a, b) ==
    IF a.neg # b.neg
    THEN a.neg
    ELSE IF a.neg
    THEN CompareMagnitude(a, b) = 1
    ELSE CompareMagnitude(a, b) = 0 - 1

FloatEqual(a, b) == a = b

FloatLessEqual(a, b) == FloatLess(a, b) \/ FloatEqual(a, b)

\* a + b: the exact sum rounded
FloatAdd(a, b) ==
    LET al == Aligned(a, b)
        order == CompareBits(al.x, al.y)
    IN  IF a.neg = b.neg
        THEN RoundNearestEven(a.neg, AddBits(al.x, al.y), al.exp, FALSE)
        ELSE IF order = 0
        THEN Zero
        ELSE IF order = 1
        THEN RoundNearestEven(a.neg, SubBits(al.x, al.y), al.exp, FALSE)
        ELSE RoundNearestEven(b.neg, SubBits(al.y, al.x), al.exp, FALSE)

(***************************************************************************)
(* get_or_create_part: the id of the part (part_number, part_revision or   *)
(* '') and whether it was inserted; a description that is neither None nor *)
(* '' is written to the part found                                         *)
(***************************************************************************)
\* `value or ''` of a text that may be None
or_empty(value) == IF value = NULL THEN "" ELSE value[1]

\* the truth value of a text that may be None
Truthy(value) == value # NULL /\ value # <<"">>

\* a lookup that finds no part
PartsWithNothing(prts, part_number, part_revision) == {}

\* SELECT id FROM parts WHERE part_number = ? AND part_revision = ?
PartsWith(prts, part_number, part_revision) ==
    {i \in 1..Len(prts) : /\ prts[i].part_number = part_number
                          /\ prts[i].part_revision = part_revision}

FirstOf(ids) == CHOOSE i \in ids : \A j \in ids : i <= j

\* the description written to the part found whatever it is
get_or_create_part_overwrite(prts, part_number, part_revision, part_description) ==
    LET revision == or_empty(part_revision)
        existing == PartsWith(prts, part_number, revision)
    IN  IF existing # {}
        THEN [parts |-> [prts EXCEPT ![FirstOf(existing)].part_description =
                                          part_description],
              part_id |-> FirstOf(existing), was_created |-> FALSE]
        ELSE [parts |-> Append(prts, [part_number |-> part_number,
                                      part_revision |-> revision,
                                      part_description |-> part_description]),
              part_id |-> Len(prts) + 1, was_created |-> TRUE]

get_or_create_part(prts, part_number, part_revision, part_description) ==
    LET revision == or_empty(part_revision)
        existing == PartsWith(prts, part_number, revision)
    IN  IF existing # {}
        THEN [parts |-> IF Truthy(part_description)
                        THEN [prts EXCEPT ![FirstOf(existing)].part_description =
                                              part_description]
                        ELSE prts,
              part_id |-> FirstOf(existing), was_created |-> FALSE]
        ELSE [parts |-> Append(prts, [part_number |-> part_number,
                                      part_revision |-> revision,
                                      part_description |-> part_description]),
              part_id |-> Len(prts) + 1, was_created |-> TRUE]

\* the users of the development database: admin, an inspector (the user the
\* requests are issued by), an operator and a quality manager, all active
SeedUsers ==
    <<[id |-> "admin", role |-> "admin", active |-> 1],
      [id |-> "u1", role |-> "inspector", active |-> 1],
      [id |-> "operator1", role |-> "operator", active |-> 1],
      [id |-> "qm", role |-> "quality_manager", active |-> 1]>>

\* no call of calculate_exit_control_samples yet
NoSampling == [lot_quantity |-> 0, done |-> FALSE, samples |-> <<>>]

\* the tables of the error-report flow after init_db and the seeding
InitQuality ==
    /\ users = SeedUsers
    /\ material_controls = <<>>
    /\ external_processes = <<>>
    /\ error_reports = <<>>
    /\ notifications = <<>>

\* a decimal numeral of a form field: sign, digits and the power of ten
\* they are divided by
Decimal(neg, num, den) == [neg |-> neg, num |-> num, den |-> den]

\* no call of get_or_create_part in flight
NoCall == [pc |-> "idle", part_number |-> "", part_revision |-> NULL,
           part_description |-> NULL, part_id |-> 0, result |-> ""]

\* no call of calculate_pass_fail yet
NoEvaluation == [unit |-> "mm", nominal |-> Decimal(FALSE, 0, 10),
                 tolerance_plus |-> NULL, tolerance_minus |-> NULL,
                 actual |-> Decimal(FALSE, 0, 10), done |-> FALSE, result |-> ""]

\* the part registry and the measurement tables after init_db
InitRegistry ==
    /\ parts = <<>>
    /\ resolving = [c \in CallIds |-> NoCall]

InitMeasure ==
    /\ job_dimensions = <<>>
    /\ measurement_reports = <<>>
    /\ measurements = <<>>
    /\ evaluation = NoEvaluation

Init ==
    /\ jobs = <<>>
    /\ exit_controls = <<>>
    /\ exit_control_samples = <<>>
    /\ audit_logs = <<>>
    /\ last = NoRequest
    /\ reqs = [r \in ReqIds |-> Idle]
    /\ InitQuality
    /\ sampling = NoSampling
    /\ InitRegistry
    /\ InitMeasure

(***************************************************************************)
(* job_create (POST /jobs/new): the part is resolved or created, the job   *)
(* is inserted under the next job number with the part's id and the form's *)
(* part fields, then a row of job_dimensions for every dimension of the    *)
(* form that has a name; po_number is always given                         *)
(***************************************************************************)
\* generate_job_number: MAX of the numbers after 'JOB', or 0, plus one
generate_job_number(jbs) ==
    LET numbers == {jbs[i].internal_job_number : i \in 1..Len(jbs)}
    IN  IF numbers = {}
        THEN 1
        ELSE (CHOOSE n \in numbers : \A m \in numbers : m <= n) + 1

\* float(x) if x else None of a tolerance field
float_or_none(field) == IF field = NULL THEN NULL ELSE <<float(field[1])>>

\* the rows of job_dimensions inserted for the dimension rows of the form
DimensionRows(job_id, dimensions) ==
    LET rows == [i \in 1..Len(dimensions) |->
                    [job_id |-> job_id, dimension_number |-> i,
                     dimension_name |-> dimensions[i].name,
                     nominal_value |-> IF dimensions[i].nominal = NULL
                                       THEN Zero
                                       ELSE float(dimensions[i].nominal[1]),
                     tolerance_plus |-> float_or_none(dimensions[i].tol_plus),
                     tolerance_minus |-> float_or_none(dimensions[i].tol_minus),
                     unit |-> dimensions[i].unit]]
    IN  SelectSeq(rows, LAMBDA r : r.dimension_name # "")

job_create_form(user, part_number, part_revision, part_description, quantity, dimensions) ==
    LET req == [NoRequest EXCEPT !.op = "job_create", !.user = user,
                                 !.arg = <<quantity>>]
        part == get_or_create_part(parts, part_number, <<part_revision>>,
                                   <<part_description>>)
    IN  IF part_number = "" \/ quantity = 0
        THEN /\ last' = [req EXCEPT !.result = "error"]
             /\ UNCHANGED <<jobs, exit_controls, exit_control_samples, audit_logs, reqs, qualityVars, sampling, registryVars, measureVars>>
        ELSE /\ Len(jobs) < MaxJobs
             /\ Len(audit_logs) < MaxAudit
             /\ parts' = part.parts
             /\ jobs' = Append(jobs, [workflow_stage |-> "po_receipt",
                                      completed_at |-> NULL,
                                      quantity |-> quantity,
                                      internal_job_number |-> generate_job_number(jobs),
                                      part_id |-> <<part.part_id>>,
                                      part_number |-> part_number,
                                      part_revision |-> <<part_revision>>])
             /\ job_dimensions' = job_dimensions
                                      \o DimensionRows(Len(jobs) + 1, dimensions)
             /\ audit_logs' = log_audit(audit_logs, user, "create", "job", Len(jobs) + 1,
                                        <<"Created job">>, NULL)
             /\ last' = [req EXCEPT !.job = Len(jobs) + 1, !.part = part.part_id,
                                    !.result = "success"]
             /\ UNCHANGED <<exit_controls, exit_control_samples, reqs, qualityVars,
                            sampling, resolving, measurement_reports, measurements,
                            evaluation>>

\* the form with part P-1, no revision, no description and no dimension
job_create(user, quantity) == job_create_form(user, "P-1", "", "", quantity, <<>>)

(***************************************************************************)
(* job_update_stage (POST /jobs/<id>/stage)                                *)
(***************************************************************************)
\* the completion branch stamping completed_at without writing the stage
UpdateJobStageStampOnly(jbs, job_id, new_stage) ==
    IF new_stage = "complete"
    THEN [jbs EXCEPT ![job_id].completed_at = CURRENT_TIMESTAMP]
    ELSE [jbs EXCEPT ![job_id].workflow_stage = new_stage]

\* the UPDATE jobs statement of job_update_stage
UpdateJobStage(jbs, job_id, new_stage) ==
    IF new_stage = "complete"
    THEN [jbs EXCEPT ![job_id].workflow_stage = new_stage,
                     ![job_id].completed_at = CURRENT_TIMESTAMP]
    ELSE [jbs EXCEPT ![job_id].workflow_stage = new_stage]

job_update_stage(user, job_id, new_stage) ==
    LET req == [NoRequest EXCEPT !.op = "job_update_stage", !.user = user,
                                 !.job = job_id, !.arg = <<new_stage>>]
    IN  IF job_id \notin 1..Len(jobs)
        THEN /\ last' = [req EXCEPT !.result = "404"]
             /\ UNCHANGED <<jobs, exit_controls, exit_control_samples, audit_logs, reqs, qualityVars, sampling, registryVars, measureVars>>
        ELSE IF ~InSeq(new_stage, valid_stages)
        THEN /\ last' = [req EXCEPT !.result = "error"]
             /\ UNCHANGED <<jobs, exit_controls, exit_control_samples, audit_logs, reqs, qualityVars, sampling, registryVars, measureVars>>
        ELSE /\ Len(audit_logs) < MaxAudit
             /\ jobs' = UpdateJobStage(jobs, job_id, new_stage)
             /\ audit_logs' = log_audit(audit_logs, user, "status_change", "job", job_id,
                                        <<"Changed stage from", jobs[job_id].workflow_stage,
                                          "to", new_stage>>, NULL)
             /\ last' = [req EXCEPT !.result = "success"]
             /\ UNCHANGED <<exit_controls, exit_control_samples, reqs, qualityVars, sampling, registryVars, measureVars>>

(***************************************************************************)
(* exit_control_create (POST /jobs/<id>/exit-control/new)                  *)
(***************************************************************************)
NewSample(ec_id, part_num) ==
    [exit_control_id |-> ec_id, part_number |-> part_num,
     dimensions_ok |-> NULL, visual_ok |-> NULL, surface_ok |-> NULL,
     overall_pass |-> NULL]

exit_control_create(user, job_id, lot_input) ==
    LET req == [NoRequest EXCEPT !.op = "exit_control_create", !.user = user,
                                 !.job = job_id, !.arg = <<lot_input>>]
    IN  IF job_id \notin 1..Len(jobs)
        THEN /\ last' = [req EXCEPT !.result = "not_found"]
             /\ UNCHANGED <<jobs, exit_controls, exit_control_samples, audit_logs, reqs, qualityVars, sampling, registryVars, measureVars>>
        ELSE LET lot_quantity == IF lot_input # 0 THEN lot_input ELSE jobs[job_id].quantity
                 ec_id == Len(exit_controls) + 1
                 samples == calculate_exit_control_samples(lot_quantity)
             IN  /\ Len(exit_controls) < MaxExitControls
                 /\ Len(audit_logs) < MaxAudit
                 /\ exit_controls' = Append(exit_controls,
                        [job_id |-> job_id, lot_quantity |-> lot_quantity,
                         overall_status |-> "in_progress"])
                 /\ exit_control_samples' = exit_control_samples
                        \o [i \in 1..Len(samples) |-> NewSample(ec_id, samples[i])]
                 /\ audit_logs' = log_audit(audit_logs, user, user, "exit_control", ec_id,
                                            <<"created">>, <<"Exit control for job", "samples">>)
                 /\ last' = [req EXCEPT !.ec = ec_id, !.result = "success"]
                 /\ UNCHANGED <<jobs, reqs, qualityVars, sampling, registryVars, measureVars>>

(***************************************************************************)
(* exit_control_record_sample (POST /exit-control/<ec>/sample/<id>)        *)
(***************************************************************************)
\* a sample passing when one of its checks is ticked
overall_pass_any(checks) ==
    IF checks[1] = 1 \/ checks[2] = 1 \/ checks[3] = 1 THEN 1 ELSE 0

\* overall_pass = 1 if (dimensions_ok and visual_ok and surface_ok) else 0
overall_pass(checks) ==
    IF checks[1] = 1 /\ checks[2] = 1 /\ checks[3] = 1 THEN 1 ELSE 0

\* the lookup of the sample by id and exit control
SampleFound(smps, ec_id, sample_id) ==
    /\ sample_id \in 1..Len(smps)
    /\ smps[sample_id].exit_control_id = ec_id

\* UPDATE exit_control_samples SET ... WHERE id = ?
UpdateSample(smps, sample_id, checks) ==
    [smps EXCEPT ![sample_id].dimensions_ok = <<checks[1]>>,
                 ![sample_id].visual_ok = <<checks[2]>>,
                 ![sample_id].surface_ok = <<checks[3]>>,
                 ![sample_id].overall_pass = <<overall_pass(checks)>>]

\* the two verdicts swapped
LotStatusSwapped(passed) == IF passed THEN "failed" ELSE "passed"

\* status = 'passed' if all_passed else 'failed'
LotStatus(passed) == IF passed THEN "passed" ELSE "failed"

\* UPDATE exit_controls SET overall_status = ? WHERE id = ?
UpdateLotStatus(ecs, ec_id, status) ==
    IF ec_id \in 1..Len(ecs)
    THEN [ecs EXCEPT ![ec_id].overall_status = status]
    ELSE ecs

\* the same UPDATE without the condition on workflow_stage
CompleteJobAnyStage(jbs, job_id) ==
    IF job_id \in 1..Len(jbs)
    THEN [jbs EXCEPT ![job_id].workflow_stage = "complete",
                     ![job_id].completed_at = CURRENT_TIMESTAMP]
    ELSE jbs

\* UPDATE jobs SET workflow_stage = 'complete', completed_at = CURRENT_TIMESTAMP
\*   WHERE id = ? AND workflow_stage = 'exit_control'
CompleteJobInExitControl(jbs, job_id) ==
    IF job_id \in 1..Len(jbs) /\ jbs[job_id].workflow_stage = "exit_control"
    THEN [jbs EXCEPT ![job_id].workflow_stage = "complete",
                     ![job_id].completed_at = CURRENT_TIMESTAMP]
    ELSE jbs

\* the lot verdict recomputation at the end of exit_control_record_sample, on
\* the tables as they are: the new exit_controls and jobs tables
RecomputedLots(ecs, smps, ec_id) ==
    IF all_inspected(smps, ec_id)
    THEN UpdateLotStatus(ecs, ec_id, LotStatus(all_passed(smps, ec_id)))
    ELSE ecs

RecomputedJobs(jbs, ecs, smps, ec_id) ==
    IF all_inspected(smps, ec_id) /\ all_passed(smps, ec_id)
    THEN CompleteJobInExitControl(jbs, ecs[ec_id].job_id)
    ELSE jbs

exit_control_record_sample(user, ec_id, sample_id, checks) ==
    LET req == [NoRequest EXCEPT !.op = "exit_control_record_sample", !.user = user,
                                 !.ec = ec_id, !.sample = sample_id, !.arg = checks]
    IN  IF ~SampleFound(exit_control_samples, ec_id, sample_id)
        THEN /\ last' = [req EXCEPT !.result = "not_found"]
             /\ UNCHANGED <<jobs, exit_controls, exit_control_samples, audit_logs, reqs, qualityVars, sampling, registryVars, measureVars>>
        ELSE LET smps == UpdateSample(exit_control_samples, sample_id, checks)
             IN  /\ exit_control_samples' = smps
                 /\ exit_controls' = RecomputedLots(exit_controls, smps, ec_id)
                 /\ jobs' = RecomputedJobs(jobs, exit_controls, smps, ec_id)
                 /\ last' = [req EXCEPT !.job = exit_controls[ec_id].job_id,
                                        !.result = IF overall_pass(checks) = 1
                                                   THEN "success" ELSE "warning"]
                 /\ UNCHANGED <<audit_logs, reqs, qualityVars, sampling, registryVars, measureVars>>

(***************************************************************************)
(* exit_control_complete (POST /exit-control/<ec>/complete)                *)
(***************************************************************************)
\* UPDATE jobs SET workflow_stage = 'complete', completed_at = CURRENT_TIMESTAMP
\*   WHERE id = ?
CompleteJob(jbs, job_id) ==
    IF job_id \in 1..Len(jbs)
    THEN [jbs EXCEPT ![job_id].workflow_stage = "complete",
                     ![job_id].completed_at = CURRENT_TIMESTAMP]
    ELSE jbs

\* a sample counted as uninspected when its verdict is 0 instead of NULL
uninspectedZero(smps, ec_id) ==
    {i \in SamplesOf(smps, ec_id) : smps[i].overall_pass = <<0>>}

\* uninspected = [s for s in samples if s['overall_pass'] is None]
uninspected(smps, ec_id) ==
    {i \in SamplesOf(smps, ec_id) : smps[i].overall_pass = NULL}

exit_control_complete(user, ec_id) ==
    LET req == [NoRequest EXCEPT !.op = "exit_control_complete", !.user = user,
                                 !.ec = ec_id]
    IN  IF ec_id \notin 1..Len(exit_controls)
        THEN /\ last' = [req EXCEPT !.result = "not_found"]
             /\ UNCHANGED <<jobs, exit_controls, exit_control_samples, audit_logs, reqs, qualityVars, sampling, registryVars, measureVars>>
        ELSE IF uninspected(exit_control_samples, ec_id) # {}
        THEN /\ last' = [req EXCEPT !.job = exit_controls[ec_id].job_id,
                                    !.result = "error"]
             /\ UNCHANGED <<jobs, exit_controls, exit_control_samples, audit_logs, reqs, qualityVars, sampling, registryVars, measureVars>>
        ELSE LET passed == all_passed(exit_control_samples, ec_id)
                 status == LotStatus(passed)
             IN  /\ Len(audit_logs) < MaxAudit
                 /\ exit_controls' = UpdateLotStatus(exit_controls, ec_id, status)
                 /\ jobs' = IF passed
                            THEN CompleteJob(jobs, exit_controls[ec_id].job_id)
                            ELSE jobs
                 /\ audit_logs' = log_audit(audit_logs, user, user, "exit_control", ec_id,
                                            <<"completed">>, <<"Status:", status>>)
                 /\ last' = [req EXCEPT !.job = exit_controls[ec_id].job_id,
                                        !.result = IF passed THEN "success" ELSE "warning"]
                 /\ UNCHANGED <<exit_control_samples, reqs, qualityVars, sampling, registryVars, measureVars>>

(***************************************************************************)
(* exit_control_add_samples (POST /exit-control/<ec>/add-samples)          *)
(***************************************************************************)
\* the loop over the tokens of part_numbers, one INSERT per accepted token
\* the loop without the lookup of an existing sample of that part number
RECURSIVE AddSamplesUnchecked(_, _, _, _)
AddSamplesUnchecked(smps, ec_id, lot_quantity, nums) ==
    IF nums = <<>>
    THEN smps
    ELSE LET part_num == Head(nums)
         IN  IF 1 <= part_num /\ part_num <= lot_quantity
             THEN AddSamplesUnchecked(Append(smps, NewSample(ec_id, part_num)),
                                      ec_id, lot_quantity, Tail(nums))
             ELSE AddSamplesUnchecked(smps, ec_id, lot_quantity, Tail(nums))

RECURSIVE AddSamples(_, _, _, _)
AddSamples(smps, ec_id, lot_quantity, nums) ==
    IF nums = <<>>
    THEN smps
    ELSE LET part_num == Head(nums)
             existing == \E i \in SamplesOf(smps, ec_id) : smps[i].part_number = part_num
         IN  IF ~existing /\ 1 <= part_num /\ part_num <= lot_quantity
             THEN AddSamples(Append(smps, NewSample(ec_id, part_num)),
                             ec_id, lot_quantity, Tail(nums))
             ELSE AddSamples(smps, ec_id, lot_quantity, Tail(nums))

exit_control_add_samples(user, ec_id, nums) ==
    LET req == [NoRequest EXCEPT !.op = "exit_control_add_samples", !.user = user,
                                 !.ec = ec_id, !.arg = nums]
    IN  IF ec_id \notin 1..Len(exit_controls)
        THEN /\ last' = [req EXCEPT !.result = "not_found"]
             /\ UNCHANGED <<jobs, exit_controls, exit_control_samples, audit_logs, reqs, qualityVars, sampling, registryVars, measureVars>>
        ELSE IF nums = <<>>
        THEN /\ last' = [req EXCEPT !.result = "error"]
             /\ UNCHANGED <<jobs, exit_controls, exit_control_samples, audit_logs, reqs, qualityVars, sampling, registryVars, measureVars>>
        ELSE LET smps == AddSamples(exit_control_samples, ec_id,
                                    exit_controls[ec_id].lot_quantity, nums)
             IN  /\ exit_control_samples' = smps
                 /\ last' = [req EXCEPT !.result =
                                IF Len(smps) > Len(exit_control_samples)
                                THEN "success" ELSE "warning"]
                 /\ UNCHANGED <<jobs, exit_controls, audit_logs, reqs, qualityVars, sampling, registryVars, measureVars>>

JobIds == 1..MaxJobs
ExitControlIds == 1..MaxExitControls
SampleIds == 1..(Len(exit_control_samples) + 1)

\* the requests, with their inputs drawn from the given sets
Requests(actors, quantities, lots, stages, checks, adds) ==
    \/ \E u \in actors, q \in quantities : job_create(u, q)
    \/ \E u \in actors, j \in JobIds, s \in stages : job_update_stage(u, j, s)
    \/ \E u \in actors, j \in JobIds, l \in lots : exit_control_create(u, j, l)
    \/ \E u \in actors, e \in ExitControlIds, i \in SampleIds, c \in checks :
            exit_control_record_sample(u, e, i, c)
    \/ \E u \in actors, e \in ExitControlIds : exit_control_complete(u, e)
    \/ \E u \in actors, e \in ExitControlIds, n \in adds :
            exit_control_add_samples(u, e, n)

Next == Requests(Users, JobQuantities, LotQuantities, StageInputs, CheckInputs, AddInputs)

Spec == Init /\ [][Next]_vars

\* lots large enough for positions to be added by hand
NextLot == Requests(LotUsers, LotJobQuantities, {0}, LotStageInputs, LotCheckInputs,
                    LotAddInputs)

SpecLot == Init /\ [][NextLot]_vars

\* lots of one sample recorded with every combination of the three checks
NextChecks == Requests(LotUsers, CheckJobQuantities, {0}, CheckStageInputs,
                       AllCheckInputs, {<<>>})

SpecChecks == Init /\ [][NextChecks]_vars

\* the sampling plan of a lot: its creation and the positions added by hand
NextPlan ==
    \/ \E u \in LotUsers, q \in LotJobQuantities : job_create(u, q)
    \/ \E u \in LotUsers, j \in JobIds, l \in PlanLotQuantities :
            exit_control_create(u, j, l)
    \/ \E u \in LotUsers, e \in ExitControlIds, n \in PlanAddInputs :
            exit_control_add_samples(u, e, n)

SpecPlan == Init /\ [][NextPlan]_vars

(***************************************************************************)
(* exit_control_record_sample statement by statement: every execute_db     *)
(* commits on its own, and each request has its own connection, so the     *)
(* statements of two requests interleave.                                  *)
(***************************************************************************)
SetReq(r, rec) == reqs' = [reqs EXCEPT ![r] = rec]

\* SELECT the sample; not found: flash and redirect
RecordBegin(r, ec_id, sample_id, checks) ==
    /\ reqs[r].pc = "idle"
    /\ SetReq(r, [Idle EXCEPT !.ec_id = ec_id, !.sample_id = sample_id,
                              !.checks = checks,
                              !.pc = IF SampleFound(exit_control_samples, ec_id, sample_id)
                                     THEN "update_sample" ELSE "done"])
    /\ UNCHANGED <<jobs, exit_controls, exit_control_samples, audit_logs, last, qualityVars, sampling, registryVars, measureVars>>

\* UPDATE exit_control_samples
RecordUpdateSample(r) ==
    /\ reqs[r].pc = "update_sample"
    /\ exit_control_samples' =
            UpdateSample(exit_control_samples, reqs[r].sample_id, reqs[r].checks)
    /\ SetReq(r, [reqs[r] EXCEPT !.pc = "select_samples"])
    /\ UNCHANGED <<jobs, exit_controls, audit_logs, last, qualityVars, sampling, registryVars, measureVars>>

\* SELECT the samples of the lot; all_inspected and all_passed are computed from them
RecordSelectSamples(r) ==
    /\ reqs[r].pc = "select_samples"
    /\ LET inspected == all_inspected(exit_control_samples, reqs[r].ec_id)
           passed == all_passed(exit_control_samples, reqs[r].ec_id)
       IN  SetReq(r, [reqs[r] EXCEPT !.all_inspected = inspected,
                                     !.all_passed = inspected /\ passed,
                                     !.pc = IF inspected THEN "update_lot" ELSE "done"])
    /\ UNCHANGED <<jobs, exit_controls, exit_control_samples, audit_logs, last, qualityVars, sampling, registryVars, measureVars>>

\* UPDATE exit_controls SET overall_status
RecordUpdateLot(r) ==
    /\ reqs[r].pc = "update_lot"
    /\ exit_controls' = UpdateLotStatus(exit_controls, reqs[r].ec_id,
                                        LotStatus(reqs[r].all_passed))
    /\ SetReq(r, [reqs[r] EXCEPT !.pc = IF reqs[r].all_passed
                                        THEN "select_job" ELSE "done"])
    /\ UNCHANGED <<jobs, exit_control_samples, audit_logs, last, qualityVars, sampling, registryVars, measureVars>>

\* SELECT job_id FROM exit_controls
RecordSelectJob(r) ==
    /\ reqs[r].pc = "select_job"
    /\ SetReq(r, [reqs[r] EXCEPT !.job_id = exit_controls[reqs[r].ec_id].job_id,
                                 !.pc = "update_job"])
    /\ UNCHANGED <<jobs, exit_controls, exit_control_samples, audit_logs, last, qualityVars, sampling, registryVars, measureVars>>

\* UPDATE jobs ... WHERE id = ? AND workflow_stage = 'exit_control'
RecordUpdateJob(r) ==
    /\ reqs[r].pc = "update_job"
    /\ jobs' = CompleteJobInExitControl(jobs, reqs[r].job_id)
    /\ SetReq(r, [reqs[r] EXCEPT !.pc = "done"])
    /\ UNCHANGED <<exit_controls, exit_control_samples, audit_logs, last, qualityVars, sampling, registryVars, measureVars>>

\* a job of two parts in exit_control with a fresh exit control of one or of
\* two samples, as job_create, job_update_stage and exit_control_create leave
\* them in this order
ConcStart(lot_input) ==
    LET lot_quantity == IF lot_input # 0 THEN lot_input ELSE 2
    IN  /\ jobs = <<[workflow_stage |-> "exit_control", completed_at |-> NULL,
                     quantity |-> 2, internal_job_number |-> 1, part_id |-> <<1>>,
                     part_number |-> "P-1", part_revision |-> <<"">>]>>
        /\ parts = <<[part_number |-> "P-1", part_revision |-> "",
                      part_description |-> <<"">>]>>
        /\ resolving = [c \in CallIds |-> NoCall]
        /\ InitMeasure
        /\ exit_controls = <<[job_id |-> 1, lot_quantity |-> lot_quantity,
                              overall_status |-> "in_progress"]>>
        /\ exit_control_samples = [i \in 1..lot_quantity |-> NewSample(1, i)]
        /\ audit_logs =
             log_audit(
               log_audit(
                 log_audit(<<>>, "u1", "create", "job", 1, <<"Created job">>, NULL),
                 "u1", "status_change", "job", 1,
                 <<"Changed stage from", "po_receipt", "to", "exit_control">>, NULL),
               "u1", "u1", "exit_control", 1, <<"created">>,
               <<"Exit control for job", "samples">>)
        /\ last = [NoRequest EXCEPT !.op = "exit_control_create", !.user = "u1",
                                    !.job = 1, !.ec = 1, !.arg = <<lot_input>>,
                                    !.result = "success"]
        /\ reqs = [r \in ReqIds |-> Idle]
        /\ InitQuality
        /\ sampling = NoSampling

InitConc == \E l \in LotQuantities : ConcStart(l)

NextConc ==
    \E r \in ReqIds :
        \/ \E e \in ExitControlIds, i \in SampleIds, c \in CheckInputs :
                RecordBegin(r, e, i, c)
        \/ RecordUpdateSample(r)
        \/ RecordSelectSamples(r)
        \/ RecordUpdateLot(r)
        \/ RecordSelectJob(r)
        \/ RecordUpdateJob(r)

SpecConc == InitConc /\ [][NextConc]_vars

(***************************************************************************)
(* calculate_exit_control_samples on its own: the lot quantity is drawn    *)
(* from 1..MaxLotQuantity and the function is applied to it                *)
(***************************************************************************)
InitSampling ==
    /\ jobs = <<>>
    /\ exit_controls = <<>>
    /\ exit_control_samples = <<>>
    /\ audit_logs = <<>>
    /\ last = NoRequest
    /\ reqs = [r \in ReqIds |-> Idle]
    /\ InitQuality
    /\ InitRegistry
    /\ InitMeasure
    /\ \E n \in 1..MaxLotQuantity : sampling = [NoSampling EXCEPT !.lot_quantity = n]

CalculateSamples ==
    /\ ~sampling.done
    /\ sampling' = [sampling EXCEPT
                        !.done = TRUE,
                        !.samples = calculate_exit_control_samples(sampling.lot_quantity)]
    /\ UNCHANGED <<jobs, audit_logs, last, exitVars, qualityVars, registryVars, measureVars>>

NextSampling == CalculateSamples

SpecSampling == InitSampling /\ [][NextSampling]_vars

(***************************************************************************)
(* Error reports (internal and supplier), notifications to the quality     *)
(* roles, and the status of an error report                                *)
(***************************************************************************)
\* the columns of material_controls and of external_processes in init_db
MaterialControlColumns ==
    {"id", "job_id", "inspector_id", "inspection_date", "material_type",
     "supplier_id", "batch_number", "quantity_received", "certificate_matches",
     "visual_ok", "dimensions_ok", "status", "notes", "created_at"}

ExternalProcessColumns ==
    {"id", "job_id", "inspector_id", "process_type", "process_description",
     "supplier_id", "sent_date", "received_date", "inspection_date", "visual_ok",
     "thickness_ok", "color_ok", "adhesion_ok", "status", "notes", "created_at",
     "updated_at"}

\* the columns written by the INSERT of external_process_create
ExternalProcessInsertColumns ==
    {"job_id", "supplier_id", "process_type", "quantity_sent", "sent_date",
     "expected_return_date", "po_number", "notes", "status", "created_by"}

\* sqlite3.OperationalError of a statement naming a column the table lacks
ColumnsExist(named, columns) == named \subseteq columns

\* SELECT ... FROM users WHERE role = ? AND active = 1, the ids in table order
ActiveWithRole(usrs, role) ==
    LET rows == SelectSeq(usrs, LAMBDA u : u.role = role /\ u.active = 1)
    IN  [i \in 1..Len(rows) |-> rows[i].id]

\* the loop over qm + admin keeping the first row of each id
RECURSIVE Unseen(_, _)
Unseen(ids, seen) ==
    IF ids = <<>>
    THEN <<>>
    ELSE IF Head(ids) \in seen
    THEN Unseen(Tail(ids), seen)
    ELSE <<Head(ids)>> \o Unseen(Tail(ids), seen \cup {Head(ids)})

\* the same users whether active or not
get_quality_notification_users_any(usrs) ==
    LET ByRole(role) ==
            LET rows == SelectSeq(usrs, LAMBDA u : u.role = role)
            IN  [i \in 1..Len(rows) |-> rows[i].id]
    IN  Unseen(ByRole("quality_manager") \o ByRole("admin"), {})

get_quality_notification_users(usrs) ==
    Unseen(ActiveWithRole(usrs, "quality_manager") \o ActiveWithRole(usrs, "admin"), {})

\* create_notification: the row it inserts (title and message are not shown)
Notification(user_id, notification_type, entity_type, entity_id) ==
    [user_id |-> user_id, notification_type |-> notification_type,
     entity_type |-> entity_type, entity_id |-> entity_id]

\* the loop `for u in get_quality_notification_users(): create_notification(...)`
\* when the call number fail raises: the recipients written before it
NotificationFailed(recipients, fail) == fail \in 1..Len(recipients)

Notified(recipients, fail) ==
    IF NotificationFailed(recipients, fail)
    THEN SubSeq(recipients, 1, fail - 1)
    ELSE recipients

NotifyAbout(ntfs, recipients, fail, error_id) ==
    LET sent == Notified(recipients, fail)
    IN  ntfs \o [i \in 1..Len(sent) |->
                    Notification(sent[i], "error_report", "error_report", error_id)]

\* an error report without the supplier of its origin
ErrorReportRowNoSupplier(job_id, user, stage, error_type, supplier_id, mc_id, ep_id) ==
    [job_id |-> job_id, reported_by |-> user, workflow_stage |-> stage,
     error_type |-> error_type, supplier_id |-> NULL,
     material_control_id |-> mc_id, external_process_id |-> ep_id,
     status |-> "open", disposition |-> NULL,
     resolved_date |-> NULL, closed_date |-> NULL]

\* INSERT INTO error_reports (...) VALUES (..., 'open')
ErrorReportRow(job_id, user, stage, error_type, supplier_id, mc_id, ep_id) ==
    [job_id |-> job_id, reported_by |-> user, workflow_stage |-> stage,
     error_type |-> error_type, supplier_id |-> supplier_id,
     material_control_id |-> mc_id, external_process_id |-> ep_id,
     status |-> "open", disposition |-> NULL,
     resolved_date |-> NULL, closed_date |-> NULL]

(***************************************************************************)
(* material_control_create (POST /jobs/<id>/material/new)                  *)
(***************************************************************************)
material_control_create(user, job_id, material_type, status, supplier_id) ==
    LET req == [NoRequest EXCEPT !.op = "material_control_create", !.user = user,
                                 !.job = job_id,
                                 !.arg = <<material_type, status, supplier_id>>]
    IN  IF job_id \notin 1..Len(jobs)
        THEN /\ last' = [req EXCEPT !.result = "not_found"]
             /\ UNCHANGED <<jobs, audit_logs, exitVars, qualityVars, sampling, registryVars, measureVars>>
        ELSE IF material_type = ""
        THEN /\ last' = [req EXCEPT !.result = "error"]
             /\ UNCHANGED <<jobs, audit_logs, exitVars, qualityVars, sampling, registryVars, measureVars>>
        ELSE /\ Len(material_controls) < MaxMaterialControls
             /\ Len(audit_logs) < MaxErrorAudit
             /\ material_controls' = Append(material_controls,
                    [job_id |-> job_id, inspector_id |-> user,
                     supplier_id |-> supplier_id, status |-> status])
             /\ audit_logs' = log_audit(audit_logs, user, "create", "material_control",
                                        Len(material_controls) + 1,
                                        <<"Created material control for job">>, NULL)
             /\ last' = [req EXCEPT !.result = "success"]
             /\ UNCHANGED <<jobs, exitVars, users, external_processes, error_reports,
                            notifications, sampling, registryVars, measureVars>>

(***************************************************************************)
(* external_process_create (POST /jobs/<id>/external-process/new)          *)
(***************************************************************************)
external_process_create(user, job_id, supplier_id) ==
    LET req == [NoRequest EXCEPT !.op = "external_process_create", !.user = user,
                                 !.job = job_id, !.arg = <<supplier_id>>]
    IN  IF job_id \notin 1..Len(jobs)
        THEN /\ last' = [req EXCEPT !.result = "not_found"]
             /\ UNCHANGED <<jobs, audit_logs, exitVars, qualityVars, sampling, registryVars, measureVars>>
        ELSE IF ~ColumnsExist(ExternalProcessInsertColumns, ExternalProcessColumns)
        THEN /\ last' = [req EXCEPT !.result = "500"]
             /\ UNCHANGED <<jobs, audit_logs, exitVars, qualityVars, sampling, registryVars, measureVars>>
        ELSE /\ Len(audit_logs) < MaxErrorAudit
             /\ external_processes' = Append(external_processes,
                    [job_id |-> job_id, supplier_id |-> supplier_id, status |-> "sent"])
             /\ audit_logs' = log_audit(audit_logs, user, user, "external_process",
                                        Len(external_processes) + 1, <<"created">>,
                                        <<"External process for job">>)
             /\ last' = [req EXCEPT !.result = "success"]
             /\ UNCHANGED <<jobs, exitVars, users, material_controls, error_reports,
                            notifications, sampling, registryVars, measureVars>>

(***************************************************************************)
(* internal_error_report (POST /jobs/<id>/report-internal-error)           *)
(***************************************************************************)
internal_error_report(user, job_id, description, fail) ==
    LET req == [NoRequest EXCEPT !.op = "internal_error_report", !.user = user,
                                 !.job = job_id, !.arg = <<description, fail>>]
    IN  IF job_id \notin 1..Len(jobs)
        THEN /\ last' = [req EXCEPT !.result = "not_found"]
             /\ UNCHANGED <<jobs, audit_logs, exitVars, qualityVars, sampling, registryVars, measureVars>>
        ELSE IF description = ""
        THEN /\ last' = [req EXCEPT !.result = "error"]
             /\ UNCHANGED <<jobs, audit_logs, exitVars, qualityVars, sampling, registryVars, measureVars>>
        ELSE LET error_id == Len(error_reports) + 1
                 recipients == get_quality_notification_users(users)
                 raised == NotificationFailed(recipients, fail)
             IN  /\ Len(error_reports) < MaxErrorReports
                 /\ raised \/ Len(audit_logs) < MaxErrorAudit
                 /\ error_reports' = Append(error_reports,
                        ErrorReportRow(job_id, user, jobs[job_id].workflow_stage,
                                       "internal", NULL, NULL, NULL))
                 /\ notifications' = NotifyAbout(notifications, recipients, fail, error_id)
                 /\ audit_logs' = IF raised
                                  THEN audit_logs
                                  ELSE log_audit(audit_logs, user, user, "error_report",
                                                 error_id, <<"created">>,
                                                 <<"Internal error for job">>)
                 /\ last' = [req EXCEPT !.ec = error_id,
                                        !.result = IF raised THEN "500" ELSE "success"]
                 /\ UNCHANGED <<jobs, exitVars, users, material_controls,
                                external_processes, sampling, registryVars, measureVars>>

(***************************************************************************)
(* material_error_report (POST /material-control/<id>/report-error) and    *)
(* external_error_report (POST /external-process/<id>/report-error)        *)
(***************************************************************************)
\* UPDATE <origin table> SET status = 'rejected', updated_at = CURRENT_TIMESTAMP
\*   WHERE id = ?      (the table as it is when the statement raises)
RejectOrigin(rows, columns, id) ==
    IF ColumnsExist({"status", "updated_at"}, columns)
    THEN [rows EXCEPT ![id].status = "rejected"]
    ELSE rows

material_error_report(user, mc_id, fail) ==
    LET req == [NoRequest EXCEPT !.op = "material_error_report", !.user = user,
                                 !.arg = <<mc_id, fail>>]
    IN  IF mc_id \notin 1..Len(material_controls)
        THEN /\ last' = [req EXCEPT !.result = "not_found"]
             /\ UNCHANGED <<jobs, audit_logs, exitVars, qualityVars, sampling, registryVars, measureVars>>
        ELSE LET mc == material_controls[mc_id]
                 error_id == Len(error_reports) + 1
                 recipients == get_quality_notification_users(users)
                 updates == mc.status # "rejected"
                 raised == \/ NotificationFailed(recipients, fail)
                           \/ /\ updates
                              /\ ~ColumnsExist({"status", "updated_at"},
                                               MaterialControlColumns)
             IN  /\ Len(error_reports) < MaxErrorReports
                 /\ raised \/ Len(audit_logs) < MaxErrorAudit
                 /\ error_reports' = Append(error_reports,
                        ErrorReportRow(mc.job_id, user, "material_control",
                                       "material_supplier", mc.supplier_id,
                                       <<mc_id>>, NULL))
                 /\ notifications' = NotifyAbout(notifications, recipients, fail, error_id)
                 /\ material_controls' =
                        IF updates /\ ~NotificationFailed(recipients, fail)
                        THEN RejectOrigin(material_controls, MaterialControlColumns, mc_id)
                        ELSE material_controls
                 /\ audit_logs' = IF raised
                                  THEN audit_logs
                                  ELSE log_audit(audit_logs, user, user, "error_report",
                                                 error_id, <<"created">>,
                                                 <<"Material supplier error for MC">>)
                 /\ last' = [req EXCEPT !.job = mc.job_id, !.ec = error_id,
                                        !.result = IF raised THEN "500" ELSE "success"]
                 /\ UNCHANGED <<jobs, exitVars, users, external_processes, sampling, registryVars, measureVars>>

external_error_report(user, ep_id, fail) ==
    LET req == [NoRequest EXCEPT !.op = "external_error_report", !.user = user,
                                 !.arg = <<ep_id, fail>>]
    IN  IF ep_id \notin 1..Len(external_processes)
        THEN /\ last' = [req EXCEPT !.result = "not_found"]
             /\ UNCHANGED <<jobs, audit_logs, exitVars, qualityVars, sampling, registryVars, measureVars>>
        ELSE LET ep == external_processes[ep_id]
                 error_id == Len(error_reports) + 1
                 recipients == get_quality_notification_users(users)
                 updates == ep.status # "rejected"
                 raised == \/ NotificationFailed(recipients, fail)
                           \/ /\ updates
                              /\ ~ColumnsExist({"status", "updated_at"},
                                               ExternalProcessColumns)
             IN  /\ Len(error_reports) < MaxErrorReports
                 /\ raised \/ Len(audit_logs) < MaxErrorAudit
                 /\ error_reports' = Append(error_reports,
                        ErrorReportRow(ep.job_id, user, "external_process",
                                       "external_supplier", ep.supplier_id,
                                       NULL, <<ep_id>>))
                 /\ notifications' = NotifyAbout(notifications, recipients, fail, error_id)
                 /\ external_processes' =
                        IF updates /\ ~NotificationFailed(recipients, fail)
                        THEN RejectOrigin(external_processes, ExternalProcessColumns, ep_id)
                        ELSE external_processes
                 /\ audit_logs' = IF raised
                                  THEN audit_logs
                                  ELSE log_audit(audit_logs, user, user, "error_report",
                                                 error_id, <<"created">>,
                                                 <<"External supplier error for EP">>)
                 /\ last' = [req EXCEPT !.job = ep.job_id, !.ec = error_id,
                                        !.result = IF raised THEN "500" ELSE "success"]
                 /\ UNCHANGED <<jobs, exitVars, users, material_controls, sampling, registryVars, measureVars>>

(***************************************************************************)
(* error_report_update (POST /error-report/<id>/update)                    *)
(***************************************************************************)
\* reopen leaving the two dates as they are
UpdateErrorReportKeepDates(ers, error_id, action) ==
    IF action = "update"
    THEN [ers EXCEPT ![error_id].disposition = <<"use_as_is">>]
    ELSE IF action = "resolve"
    THEN [ers EXCEPT ![error_id].status = "resolved",
                     ![error_id].resolved_date = CURRENT_TIMESTAMP]
    ELSE IF action = "close"
    THEN [ers EXCEPT ![error_id].status = "closed",
                     ![error_id].closed_date = CURRENT_TIMESTAMP]
    ELSE IF action = "reopen"
    THEN [ers EXCEPT ![error_id].status = "open"]
    ELSE ers

\* the UPDATE error_reports of the branch taken for the form field action
UpdateErrorReport(ers, error_id, action) ==
    IF action = "update"
    THEN [ers EXCEPT ![error_id].disposition = <<"use_as_is">>]
    ELSE IF action = "resolve"
    THEN [ers EXCEPT ![error_id].status = "resolved",
                     ![error_id].resolved_date = CURRENT_TIMESTAMP]
    ELSE IF action = "close"
    THEN [ers EXCEPT ![error_id].status = "closed",
                     ![error_id].closed_date = CURRENT_TIMESTAMP]
    ELSE IF action = "reopen"
    THEN [ers EXCEPT ![error_id].status = "open",
                     ![error_id].resolved_date = NULL,
                     ![error_id].closed_date = NULL]
    ELSE ers

error_report_update(user, error_id, action) ==
    LET req == [NoRequest EXCEPT !.op = "error_report_update", !.user = user,
                                 !.ec = error_id, !.arg = <<action>>]
    IN  IF error_id \notin 1..Len(error_reports)
        THEN /\ last' = [req EXCEPT !.result = "not_found"]
             /\ UNCHANGED <<jobs, audit_logs, exitVars, qualityVars, sampling, registryVars, measureVars>>
        ELSE /\ Len(audit_logs) < MaxStatusAudit
             /\ error_reports' = UpdateErrorReport(error_reports, error_id, action)
             /\ audit_logs' = log_audit(audit_logs, user, user, "error_report", error_id,
                                        IF action = "" THEN NULL ELSE <<action>>,
                                        <<"Error report", action>>)
             /\ last' = [req EXCEPT !.job = error_reports[error_id].job_id,
                                    !.result = IF action \in {"update", "resolve",
                                                              "close", "reopen"}
                                               THEN "success" ELSE "redirect"]
             /\ UNCHANGED <<jobs, exitVars, users, material_controls,
                            external_processes, notifications, sampling, registryVars, measureVars>>

(***************************************************************************)
(* admin_toggle_user (POST /admin/users/<id>/toggle), admins only          *)
(***************************************************************************)
RoleOf(usrs, id) == usrs[CHOOSE i \in 1..Len(usrs) : usrs[i].id = id].role

admin_toggle_user(caller, user_id) ==
    LET req == [NoRequest EXCEPT !.op = "admin_toggle_user", !.user = caller,
                                 !.arg = <<user_id>>]
    IN  IF RoleOf(users, caller) # "admin"
        THEN /\ last' = [req EXCEPT !.result = "error"]
             /\ UNCHANGED <<jobs, audit_logs, exitVars, qualityVars, sampling, registryVars, measureVars>>
        ELSE /\ users' = [i \in 1..Len(users) |->
                            IF users[i].id = user_id
                            THEN [users[i] EXCEPT !.active = IF users[i].active = 1
                                                             THEN 0 ELSE 1]
                            ELSE users[i]]
             /\ last' = [req EXCEPT !.result = "success"]
             /\ UNCHANGED <<jobs, audit_logs, exitVars, material_controls,
                            external_processes, error_reports, notifications, sampling, registryVars, measureVars>>

MaterialControlIds == 1..MaxMaterialControls
ExternalProcessIds == 1..1
ErrorReportIds == 1..MaxErrorReports

\* the creation of error reports and the notifications it sends
NextErr ==
    \/ \E u \in LotUsers, q \in ErrJobQuantities : job_create(u, q)
    \/ \E u \in LotUsers, j \in JobIds, t \in MaterialTypeInputs,
          s \in MaterialStatusInputs, p \in SupplierInputs :
            material_control_create(u, j, t, s, p)
    \/ \E u \in LotUsers, j \in JobIds, p \in SupplierInputs :
            external_process_create(u, j, p)
    \/ \E u \in LotUsers, j \in JobIds, d \in DescriptionInputs, f \in NotifyFailures :
            internal_error_report(u, j, d, f)
    \/ \E u \in LotUsers, m \in MaterialControlIds, f \in NotifyFailures :
            material_error_report(u, m, f)
    \/ \E u \in LotUsers, e \in ExternalProcessIds, f \in NotifyFailures :
            external_error_report(u, e, f)
    \/ \E c \in ToggleCallers, t \in ToggleUserIds : admin_toggle_user(c, t)

SpecErr == Init /\ [][NextErr]_vars

\* the life of an error report after its creation
NextStatus ==
    \/ \E u \in LotUsers, q \in ErrJobQuantities : job_create(u, q)
    \/ \E u \in LotUsers, j \in JobIds, d \in DescriptionInputs :
            internal_error_report(u, j, d, 0)
    \/ \E u \in LotUsers, e \in ErrorReportIds, a \in ErrorActions :
            error_report_update(u, e, a)

SpecStatus == Init /\ [][NextStatus]_vars

(***************************************************************************)
(* The part registry: get_or_create_part on its own and by job_create and  *)
(* job_edit                                                                *)
(***************************************************************************)
ResolveOrCreate(part_number, part_revision, part_description) ==
    LET part == get_or_create_part(parts, part_number, part_revision,
                                   part_description)
    IN  /\ Len(part.parts) <= MaxParts
        /\ parts' = part.parts
        /\ last' = [NoRequest EXCEPT
                        !.op = "get_or_create_part", !.part = part.part_id,
                        !.arg = <<part_number, part_revision, part_description>>,
                        !.result = IF part.was_created THEN "created" ELSE "existing"]
        /\ UNCHANGED <<jobs, audit_logs, exitVars, qualityVars, sampling, resolving,
                       measureVars>>

(***************************************************************************)
(* job_edit (POST /jobs/<id>/edit): no field is validated; the part is     *)
(* resolved or created and committed before the UPDATE of the job, which   *)
(* raises on a quantity of None (quantity INTEGER NOT NULL)                *)
(***************************************************************************)
job_edit(user, job_id, part_number, part_revision, part_description, quantity) ==
    LET req == [NoRequest EXCEPT !.op = "job_edit", !.user = user, !.job = job_id,
                                 !.arg = <<part_number, part_revision,
                                           part_description, quantity>>]
        part == get_or_create_part(parts, part_number, <<part_revision>>,
                                   <<part_description>>)
    IN  IF job_id \notin 1..Len(jobs)
        THEN /\ last' = [req EXCEPT !.result = "not_found"]
             /\ UNCHANGED <<jobs, audit_logs, exitVars, qualityVars, sampling,
                            registryVars, measureVars>>
        ELSE /\ Len(part.parts) <= MaxParts
             /\ parts' = part.parts
             /\ IF quantity = NULL
                THEN /\ last' = [req EXCEPT !.part = part.part_id, !.result = "500"]
                     /\ UNCHANGED <<jobs, audit_logs>>
                ELSE /\ Len(audit_logs) < MaxAudit
                     /\ jobs' = [jobs EXCEPT ![job_id].part_id = <<part.part_id>>,
                                             ![job_id].part_number = part_number,
                                             ![job_id].part_revision = <<part_revision>>,
                                             ![job_id].quantity = quantity[1]]
                     /\ audit_logs' = log_audit(audit_logs, user, "update", "job",
                                                job_id, <<"Updated job">>, NULL)
                     /\ last' = [req EXCEPT !.part = part.part_id,
                                            !.result = "success"]
             /\ UNCHANGED <<exitVars, qualityVars, sampling, resolving, measureVars>>

NextRegistry ==
    \/ \E n \in PartNumbers, r \in PartRevisions, d \in PartDescriptions :
            ResolveOrCreate(n, r, d)
    \/ \E u \in LotUsers, n \in FormPartNumbers, r \in FormRevisions,
          d \in FormDescriptions, q \in JobQuantities :
            job_create_form(u, n, r, d, q, <<>>)
    \/ \E u \in LotUsers, j \in JobIds, n \in PartNumbers, r \in FormRevisions,
          d \in FormDescriptions, q \in EditQuantities :
            job_edit(u, j, n, r, d, q)

SpecRegistry == Init /\ [][NextRegistry]_vars

(***************************************************************************)
(* get_or_create_part statement by statement, for calls running in         *)
(* different requests at once: the SELECT, then the UPDATE of the          *)
(* description or the INSERT, which raises sqlite3.IntegrityError on       *)
(* UNIQUE(part_number, part_revision); nothing catches it                  *)
(***************************************************************************)
CallBegin(c, part_number, part_revision, part_description) ==
    /\ resolving[c].pc = "idle"
    /\ resolving' = [resolving EXCEPT
                         ![c] = [NoCall EXCEPT
                                    !.pc = "select",
                                    !.part_number = part_number,
                                    !.part_revision = <<or_empty(part_revision)>>,
                                    !.part_description = part_description]]
    /\ UNCHANGED <<jobs, audit_logs, last, exitVars, qualityVars, sampling, parts,
                   measureVars>>

CallSelect(c) ==
    LET call == resolving[c]
        existing == PartsWith(parts, call.part_number, call.part_revision[1])
    IN  /\ call.pc = "select"
        /\ resolving' = [resolving EXCEPT
                             ![c] = IF existing = {}
                                    THEN [call EXCEPT !.pc = "insert"]
                                    ELSE [call EXCEPT
                                             !.pc = IF Truthy(call.part_description)
                                                    THEN "update"
                                                    ELSE "done",
                                             !.part_id = FirstOf(existing),
                                             !.result = "existing"]]
        /\ UNCHANGED <<jobs, audit_logs, last, exitVars, qualityVars, sampling, parts,
                       measureVars>>

CallUpdate(c) ==
    LET call == resolving[c]
    IN  /\ call.pc = "update"
        /\ parts' = [parts EXCEPT ![call.part_id].part_description =
                                       call.part_description]
        /\ resolving' = [resolving EXCEPT ![c].pc = "done"]
        /\ UNCHANGED <<jobs, audit_logs, last, exitVars, qualityVars, sampling,
                       measureVars>>

CallInsert(c) ==
    LET call == resolving[c]
    IN  /\ call.pc = "insert"
        /\ IF PartsWith(parts, call.part_number, call.part_revision[1]) # {}
           THEN /\ resolving' = [resolving EXCEPT ![c].pc = "done",
                                                  ![c].result = "IntegrityError"]
                /\ UNCHANGED parts
           ELSE /\ parts' = Append(parts,
                                   [part_number |-> call.part_number,
                                    part_revision |-> call.part_revision[1],
                                    part_description |-> call.part_description])
                /\ resolving' = [resolving EXCEPT ![c].pc = "done",
                                                  ![c].part_id = Len(parts) + 1,
                                                  ![c].result = "created"]
        /\ UNCHANGED <<jobs, audit_logs, last, exitVars, qualityVars, sampling,
                       measureVars>>

NextCalls ==
    \E c \in CallIds :
        \/ \E n \in PartNumbers, r \in PartRevisions, d \in PartDescriptions :
                CallBegin(c, n, r, d)
        \/ CallSelect(c)
        \/ CallUpdate(c)
        \/ CallInsert(c)

SpecCalls == Init /\ [][NextCalls]_vars

(***************************************************************************)
(* seed_database (seed_dev_db.py) on a database whose users are seeded:    *)
(* the sample jobs whose job number is not taken are inserted with the     *)
(* part fields of the sample and without part_id, then the sample          *)
(* dimensions and a sample error report for the job numbered 1 unless it   *)
(* has some; all in one transaction                                        *)
(***************************************************************************)
\* sample_jobs: job number, part number, revision, quantity and stage
sample_jobs ==
    <<[internal_job_number |-> 1, part_number |-> "SHAFT-100", part_revision |-> "C",
       quantity |-> 50, workflow_stage |-> "in_process"],
      [internal_job_number |-> 2, part_number |-> "BRACKET-200", part_revision |-> "A",
       quantity |-> 100, workflow_stage |-> "material_control"],
      [internal_job_number |-> 3, part_number |-> "PIN-050", part_revision |-> "B",
       quantity |-> 200, workflow_stage |-> "po_receipt"],
      [internal_job_number |-> 4, part_number |-> "HOUSING-300", part_revision |-> "D",
       quantity |-> 25, workflow_stage |-> "external_process"],
      [internal_job_number |-> 5, part_number |-> "COVER-150", part_revision |-> "A",
       quantity |-> 75, workflow_stage |-> "revision_check"]>>

\* sample_dimensions: nominal, tolerance_plus, tolerance_minus and unit
sample_dimensions ==
    <<[name |-> "D25 h7", nominal |-> <<Decimal(FALSE, 25, 1)>>,
       tol_plus |-> <<Decimal(FALSE, 0, 1)>>, tol_minus |-> <<Decimal(TRUE, 21, 1000)>>,
       unit |-> "mm"],
      [name |-> "D20 h6", nominal |-> <<Decimal(FALSE, 20, 1)>>,
       tol_plus |-> <<Decimal(FALSE, 0, 1)>>, tol_minus |-> <<Decimal(TRUE, 13, 1000)>>,
       unit |-> "mm"],
      [name |-> "Length A", nominal |-> <<Decimal(FALSE, 150, 1)>>,
       tol_plus |-> <<Decimal(FALSE, 1, 10)>>, tol_minus |-> <<Decimal(TRUE, 1, 10)>>,
       unit |-> "mm"],
      [name |-> "Length B", nominal |-> <<Decimal(FALSE, 75, 1)>>,
       tol_plus |-> <<Decimal(FALSE, 5, 100)>>, tol_minus |-> <<Decimal(TRUE, 5, 100)>>,
       unit |-> "mm"],
      [name |-> "Thread M8x1.25", nominal |-> <<Decimal(FALSE, 0, 1)>>,
       tol_plus |-> <<Decimal(FALSE, 0, 1)>>, tol_minus |-> <<Decimal(FALSE, 0, 1)>>,
       unit |-> "go/nogo"]>>

\* the loop over sample_jobs from sample number i on
RECURSIVE SeedJobs(_, _)
SeedJobs(jbs, i) ==
    IF i > Len(sample_jobs)
    THEN jbs
    ELSE IF \E k \in 1..Len(jbs) :
                jbs[k].internal_job_number = sample_jobs[i].internal_job_number
    THEN SeedJobs(jbs, i + 1)
    ELSE SeedJobs(Append(jbs, [workflow_stage |-> sample_jobs[i].workflow_stage,
                               completed_at |-> NULL,
                               quantity |-> sample_jobs[i].quantity,
                               internal_job_number |-> sample_jobs[i].internal_job_number,
                               part_id |-> NULL,
                               part_number |-> sample_jobs[i].part_number,
                               part_revision |-> <<sample_jobs[i].part_revision>>]),
                  i + 1)

seed_database ==
    LET seeded == SeedJobs(jobs, 1)
        job1_id == CHOOSE k \in 1..Len(seeded) : seeded[k].internal_job_number = 1
    IN  /\ jobs' = seeded
        /\ job_dimensions' =
               IF \E d \in 1..Len(job_dimensions) : job_dimensions[d].job_id = job1_id
               THEN job_dimensions
               ELSE job_dimensions \o DimensionRows(job1_id, sample_dimensions)
        /\ error_reports' =
               IF \E e \in 1..Len(error_reports) : error_reports[e].job_id = job1_id
               THEN error_reports
               ELSE Append(error_reports,
                           ErrorReportRow(job1_id, "u1", "in_process", "internal",
                                          NULL, NULL, NULL))
        /\ last' = [NoRequest EXCEPT !.op = "seed_database", !.job = job1_id,
                                     !.result = "seeded"]
        /\ UNCHANGED <<audit_logs, exitVars, users, material_controls,
                       external_processes, notifications, sampling, registryVars,
                       measurement_reports, measurements, evaluation>>

(***************************************************************************)
(* init_db on an existing database: the tables exist, and the migration    *)
(* gives the jobs without part_id the part of their part_number and        *)
(* part_revision or '', inserting it when it is not there                  *)
(***************************************************************************)
\* SELECT DISTINCT part_number, part_revision FROM jobs WHERE part_id IS NULL
\* AND part_number != '', from job i on, in the order of the rows
RECURSIVE jobs_without_part(_, _, _)
jobs_without_part(jbs, i, seen) ==
    IF i > Len(jbs)
    THEN <<>>
    ELSE LET key == <<jbs[i].part_number, jbs[i].part_revision>>
         IN  IF jbs[i].part_id # NULL \/ jbs[i].part_number = "" \/ key \in seen
             THEN jobs_without_part(jbs, i + 1, seen)
             ELSE <<key>> \o jobs_without_part(jbs, i + 1, seen \cup {key})

\* the loop over jobs_without_part: the parts and the jobs it leaves
RECURSIVE Migrate(_, _, _)
Migrate(keys, prts, jbs) ==
    IF keys = <<>>
    THEN [parts |-> prts, jobs |-> jbs]
    ELSE LET part_number == Head(keys)[1]
             part_revision == or_empty(Head(keys)[2])
             part == get_or_create_part(prts, part_number, <<part_revision>>, NULL)
         IN  Migrate(Tail(keys), part.parts,
                     [k \in 1..Len(jbs) |->
                         IF /\ jbs[k].part_number = part_number
                            /\ \/ jbs[k].part_revision = <<part_revision>>
                               \/ jbs[k].part_revision = NULL /\ part_revision = ""
                         THEN [jbs[k] EXCEPT !.part_id = <<part.part_id>>]
                         ELSE jbs[k]])

init_db ==
    LET migrated == Migrate(jobs_without_part(jobs, 1, {}), parts, jobs)
    IN  /\ parts' = migrated.parts
        /\ jobs' = migrated.jobs
        /\ last' = [NoRequest EXCEPT !.op = "init_db", !.result = "initialized"]
        /\ UNCHANGED <<audit_logs, exitVars, qualityVars, sampling, resolving,
                       measureVars>>

\* jobs created and edited by the forms and by the seeding
NextSeed ==
    \/ \E u \in LotUsers, n \in PartNumbers, r \in FormRevisions,
          d \in FormDescriptions, q \in ErrJobQuantities :
            job_create_form(u, n, r, d, q, <<>>)
    \/ \E u \in LotUsers, j \in JobIds, n \in PartNumbers, r \in FormRevisions,
          d \in FormDescriptions, q \in EditQuantities :
            job_edit(u, j, n, r, d, q)
    \/ seed_database
    \/ init_db

SpecSeed == Init /\ [][NextSeed]_vars

(***************************************************************************)
(* calculate_pass_fail: go/nogo passes on an actual value equal to 1; a    *)
(* dimension with both tolerances passes between nominal + tol_minus and   *)
(* nominal + tol_plus in float arithmetic; any other dimension passes      *)
(***************************************************************************)
One == float(Decimal(FALSE, 1, 1))

\* go/nogo passing on any actual value other than 0
calculate_pass_fail_nonzero(dimension, actual_value) ==
    IF dimension.unit = "go/nogo"
    THEN (IF ~FloatEqual(actual_value, Zero) THEN "pass" ELSE "fail")
    ELSE IF dimension.tolerance_plus # NULL /\ dimension.tolerance_minus # NULL
    THEN LET upper_limit == FloatAdd(dimension.nominal_value, dimension.tolerance_plus[1])
             lower_limit == FloatAdd(dimension.nominal_value, dimension.tolerance_minus[1])
         IN  IF /\ FloatLessEqual(lower_limit, actual_value)
                /\ FloatLessEqual(actual_value, upper_limit)
             THEN "pass"
             ELSE "fail"
    ELSE "pass"

calculate_pass_fail(dimension, actual_value) ==
    IF dimension.unit = "go/nogo"
    THEN (IF FloatEqual(actual_value, One) THEN "pass" ELSE "fail")
    ELSE IF dimension.tolerance_plus # NULL /\ dimension.tolerance_minus # NULL
    THEN LET upper_limit == FloatAdd(dimension.nominal_value, dimension.tolerance_plus[1])
             lower_limit == FloatAdd(dimension.nominal_value, dimension.tolerance_minus[1])
         IN  IF /\ FloatLessEqual(lower_limit, actual_value)
                /\ FloatLessEqual(actual_value, upper_limit)
             THEN "pass"
             ELSE "fail"
    ELSE "pass"

\* calculate_pass_fail on its own: the dimension and the actual value are
\* drawn as decimal numerals in tenths, as they are typed into the forms,
\* converted by float() and evaluated
Tenths(neg, most) == {Decimal(neg, k, 10) : k \in 0..most}

OrAbsent(decimals) == {NULL} \cup {<<d>> : d \in decimals}

InitEvaluation ==
    /\ jobs = <<>>
    /\ exit_controls = <<>>
    /\ exit_control_samples = <<>>
    /\ audit_logs = <<>>
    /\ last = NoRequest
    /\ reqs = [r \in ReqIds |-> Idle]
    /\ InitQuality
    /\ sampling = NoSampling
    /\ InitRegistry
    /\ job_dimensions = <<>>
    /\ measurement_reports = <<>>
    /\ measurements = <<>>
    /\ \E unit \in DimensionUnits,
          nominal \in Tenths(FALSE, MaxNominalTenths),
          tolerance_plus \in OrAbsent(Tenths(FALSE, MaxToleranceTenths)),
          tolerance_minus \in OrAbsent(Tenths(TRUE, MaxToleranceTenths)),
          actual \in Tenths(FALSE, MaxNominalTenths + MaxToleranceTenths + 1) :
            evaluation = [NoEvaluation EXCEPT
                             !.unit = unit, !.nominal = nominal,
                             !.tolerance_plus = tolerance_plus,
                             !.tolerance_minus = tolerance_minus,
                             !.actual = actual]

Evaluate ==
    /\ ~evaluation.done
    /\ evaluation' =
           [evaluation EXCEPT
               !.done = TRUE,
               !.result = calculate_pass_fail(
                              [unit |-> evaluation.unit,
                               nominal_value |-> float(evaluation.nominal),
                               tolerance_plus |-> float_or_none(evaluation.tolerance_plus),
                               tolerance_minus |-> float_or_none(evaluation.tolerance_minus)],
                              float(evaluation.actual))]
    /\ UNCHANGED <<jobs, audit_logs, last, exitVars, qualityVars, sampling,
                   registryVars, job_dimensions, measurement_reports, measurements>>

NextEvaluation == Evaluate

SpecEvaluation == InitEvaluation /\ [][NextEvaluation]_vars

(***************************************************************************)
(* material_control_edit (POST /material/<id>/edit): the form's status is  *)
(* written as it is                                                        *)
(***************************************************************************)
material_control_edit(user, mc_id, status, supplier_id) ==
    LET req == [NoRequest EXCEPT !.op = "material_control_edit", !.user = user,
                                 !.ec = mc_id, !.arg = <<status, supplier_id>>]
    IN  IF mc_id \notin 1..Len(material_controls)
        THEN /\ last' = [req EXCEPT !.result = "not_found"]
             /\ UNCHANGED <<jobs, audit_logs, exitVars, qualityVars, sampling,
                            registryVars, measureVars>>
        ELSE /\ material_controls' =
                    [material_controls EXCEPT
                        ![mc_id].supplier_id = supplier_id,
                        ![mc_id].status = status]
             /\ last' = [req EXCEPT !.job = material_controls[mc_id].job_id,
                                    !.result = "success"]
             /\ UNCHANGED <<jobs, audit_logs, exitVars, users, external_processes,
                            error_reports, notifications, sampling, registryVars,
                            measureVars>>

(***************************************************************************)
(* material_control_status (POST /material/<id>/status): pending, approved *)
(* and rejected are written, with the current user as inspector; rejected  *)
(* notifies the quality users; any other status is ignored                 *)
(***************************************************************************)
material_control_status(user, mc_id, new_status) ==
    LET req == [NoRequest EXCEPT !.op = "material_control_status", !.user = user,
                                 !.ec = mc_id, !.arg = <<new_status>>]
        recipients == get_quality_notification_users(users)
    IN  IF mc_id \notin 1..Len(material_controls)
        THEN /\ last' = [req EXCEPT !.result = "not_found"]
             /\ UNCHANGED <<jobs, audit_logs, exitVars, qualityVars, sampling,
                            registryVars, measureVars>>
        ELSE IF new_status \notin {"pending", "approved", "rejected"}
        THEN /\ last' = [req EXCEPT !.result = "ignored"]
             /\ UNCHANGED <<jobs, audit_logs, exitVars, qualityVars, sampling,
                            registryVars, measureVars>>
        ELSE /\ new_status = "rejected"
                    => Len(notifications) + Len(recipients) <= MaxMaterialNotices
             /\ material_controls' =
                    [material_controls EXCEPT ![mc_id].status = new_status,
                                              ![mc_id].inspector_id = user]
             /\ notifications' =
                    IF new_status = "rejected"
                    THEN notifications \o
                         [i \in 1..Len(recipients) |->
                             Notification(recipients[i], "material_rejected",
                                          "material_control", mc_id)]
                    ELSE notifications
             /\ last' = [req EXCEPT !.job = material_controls[mc_id].job_id,
                                    !.result = "success"]
             /\ UNCHANGED <<jobs, audit_logs, exitVars, users, external_processes,
                            error_reports, sampling, registryVars, measureVars>>

(***************************************************************************)
(* external_process_receive and external_process_inspect: each UPDATE      *)
(* names columns the table external_processes lacks; inspect writes the    *)
(* form's status as it is                                                  *)
(***************************************************************************)
ExternalProcessReceiveColumns ==
    {"status", "actual_return_date", "quantity_received", "updated_at"}

ExternalProcessInspectColumns ==
    {"status", "inspected_by", "inspection_date", "inspection_notes", "updated_at"}

external_process_receive(user, ep_id) ==
    LET req == [NoRequest EXCEPT !.op = "external_process_receive", !.user = user,
                                 !.ec = ep_id]
    IN  IF ep_id \notin 1..Len(external_processes)
        THEN /\ last' = [req EXCEPT !.result = "not_found"]
             /\ UNCHANGED <<jobs, audit_logs, exitVars, qualityVars, sampling,
                            registryVars, measureVars>>
        ELSE IF ~ColumnsExist(ExternalProcessReceiveColumns, ExternalProcessColumns)
        THEN /\ last' = [req EXCEPT !.result = "500"]
             /\ UNCHANGED <<jobs, audit_logs, exitVars, qualityVars, sampling,
                            registryVars, measureVars>>
        ELSE /\ external_processes' =
                    [external_processes EXCEPT ![ep_id].status = "received"]
             /\ last' = [req EXCEPT !.result = "success"]
             /\ UNCHANGED <<jobs, audit_logs, exitVars, users, material_controls,
                            error_reports, notifications, sampling, registryVars,
                            measureVars>>

external_process_inspect(user, ep_id, status) ==
    LET req == [NoRequest EXCEPT !.op = "external_process_inspect", !.user = user,
                                 !.ec = ep_id, !.arg = <<status>>]
    IN  IF ep_id \notin 1..Len(external_processes)
        THEN /\ last' = [req EXCEPT !.result = "not_found"]
             /\ UNCHANGED <<jobs, audit_logs, exitVars, qualityVars, sampling,
                            registryVars, measureVars>>
        ELSE IF ~ColumnsExist(ExternalProcessInspectColumns, ExternalProcessColumns)
        THEN /\ last' = [req EXCEPT !.result = "500"]
             /\ UNCHANGED <<jobs, audit_logs, exitVars, qualityVars, sampling,
                            registryVars, measureVars>>
        ELSE /\ external_processes' =
                    [external_processes EXCEPT ![ep_id].status = status]
             /\ notifications' =
                    IF status = "rejected"
                    THEN LET recipients == get_quality_notification_users(users)
                         IN  notifications \o
                             [i \in 1..Len(recipients) |->
                                 Notification(recipients[i], "external_rejected",
                                              "external_process", ep_id)]
                    ELSE notifications
             /\ last' = [req EXCEPT !.result = "success"]
             /\ UNCHANGED <<jobs, audit_logs, exitVars, users, material_controls,
                            error_reports, sampling, registryVars, measureVars>>

\* the status of material controls and external processes
NextOrigins ==
    \/ \E u \in LotUsers, q \in ErrJobQuantities : job_create(u, q)
    \/ \E u \in LotUsers, j \in JobIds, st \in StatusInputs, s \in SupplierInputs :
            material_control_create(u, j, "steel", st, s)
    \/ \E u \in LotUsers, m \in MaterialControlIds, st \in StatusInputs,
          s \in SupplierInputs :
            material_control_edit(u, m, st, s)
    \/ \E u \in LotUsers, m \in MaterialControlIds, st \in StatusInputs :
            material_control_status(u, m, st)
    \/ \E u \in LotUsers, j \in JobIds, s \in SupplierInputs :
            external_process_create(u, j, s)
    \/ \E u \in LotUsers, e \in ExternalProcessIds : external_process_receive(u, e)
    \/ \E u \in LotUsers, e \in ExternalProcessIds, st \in StatusInputs :
            external_process_inspect(u, e, st)

SpecOrigins == Init /\ [][NextOrigins]_vars

(***************************************************************************)
(* Measurement reports: measurement_report_create and                      *)
(* measurement_report_edit                                                 *)
(***************************************************************************)
\* SELECT * FROM job_dimensions WHERE job_id = ? ORDER BY dimension_number:
\* the ids (a job's rows are inserted by ascending dimension_number)
DimensionsOf(job_id) ==
    LET ids == {d \in 1..Len(job_dimensions) : job_dimensions[d].job_id = job_id}
    IN  SelectSeq([d \in 1..Len(job_dimensions) |-> d], LAMBDA d : d \in ids)

\* the field actual_<id> of the k-th dimension of the form
ActualOf(actual, k) == IF k \in 1..Len(actual) THEN actual[k] ELSE NULL

\* float(actual_value_str) does not raise ValueError
IsNumber(field) == "num" \in DOMAIN field[1]

\* the dimensions whose field is not empty, and those whose field is a number
Filled(dimensions, actual) ==
    {k \in 1..Len(dimensions) : ActualOf(actual, k) # NULL}
Measured(dimensions, actual) ==
    {k \in Filled(dimensions, actual) : IsNumber(ActualOf(actual, k))}

\* pass_fail of the k-th dimension for its field
PassFail(dimensions, actual, k) ==
    calculate_pass_fail(job_dimensions[dimensions[k]], float(ActualOf(actual, k)[1]))

\* overall_pass after the loop over the dimensions
OverallPass(dimensions, actual) ==
    \A k \in Measured(dimensions, actual) : PassFail(dimensions, actual, k) # "fail"

\* the row of measurements written for the k-th dimension (sample_number 1,
\* the form's default)
Measurement(report_id, dimensions, actual, k) ==
    [report_id |-> report_id, job_dimension_id |-> dimensions[k],
     actual_value |-> float(ActualOf(actual, k)[1]),
     pass_fail |-> PassFail(dimensions, actual, k), sample_number |-> 1]

\* SELECT id FROM measurements WHERE report_id = ? AND job_dimension_id = ?
\* AND sample_number = ?
ExistingMeasurement(msrs, report_id, job_dimension_id, sample_number) ==
    {i \in 1..Len(msrs) : /\ msrs[i].report_id = report_id
                          /\ msrs[i].job_dimension_id = job_dimension_id
                          /\ msrs[i].sample_number = sample_number}

\* the loop of measurement_report_edit from the k-th dimension on: the
\* measurement of a dimension is updated when there is one, inserted when not
RECURSIVE UpsertMeasurements(_, _, _, _, _)
UpsertMeasurements(msrs, report_id, dimensions, actual, k) ==
    IF k > Len(dimensions)
    THEN msrs
    ELSE IF k \notin Measured(dimensions, actual)
    THEN UpsertMeasurements(msrs, report_id, dimensions, actual, k + 1)
    ELSE LET row == Measurement(report_id, dimensions, actual, k)
             existing == ExistingMeasurement(msrs, report_id, dimensions[k], 1)
         IN  UpsertMeasurements(
                 IF existing # {}
                 THEN [msrs EXCEPT ![FirstOf(existing)].actual_value = row.actual_value,
                                   ![FirstOf(existing)].pass_fail = row.pass_fail]
                 ELSE Append(msrs, row),
                 report_id, dimensions, actual, k + 1)

\* the status of measurement_report_edit: from the fields of this form
EditStatus(dimensions, actual) ==
    IF Filled(dimensions, actual) # {}
    THEN (IF OverallPass(dimensions, actual) THEN "pass" ELSE "fail")
    ELSE "pending"

measurement_report_create(user, job_id, actual) ==
    LET req == [NoRequest EXCEPT !.op = "measurement_report_create", !.user = user,
                                 !.job = job_id, !.arg = actual]
        dimensions == DimensionsOf(job_id)
        report_id == Len(measurement_reports) + 1
        measured == SelectSeq([k \in 1..Len(dimensions) |-> k],
                              LAMBDA k : k \in Measured(dimensions, actual))
        rows == [i \in 1..Len(measured) |->
                    Measurement(report_id, dimensions, actual, measured[i])]
        measurement_count == Len(rows)
    IN  IF job_id \notin 1..Len(jobs)
        THEN /\ last' = [req EXCEPT !.result = "not_found"]
             /\ UNCHANGED <<jobs, audit_logs, exitVars, qualityVars, sampling,
                            registryVars, measureVars>>
        ELSE IF dimensions = <<>>
        THEN /\ last' = [req EXCEPT !.result = "error"]
             /\ UNCHANGED <<jobs, audit_logs, exitVars, qualityVars, sampling,
                            registryVars, measureVars>>
        ELSE /\ Len(measurement_reports) < MaxReports
             /\ Len(audit_logs) < MaxAudit
             /\ measurements' = measurements \o rows
             /\ measurement_reports' =
                    Append(measurement_reports,
                           [job_id |-> job_id, inspector_id |-> user,
                            overall_status |->
                                IF measurement_count = 0
                                THEN "pending"
                                ELSE IF OverallPass(dimensions, actual)
                                THEN "pass"
                                ELSE "fail"])
             /\ audit_logs' = log_audit(audit_logs, user, "create",
                                        "measurement_report", report_id,
                                        <<"Created measurement report for job">>, NULL)
             /\ last' = [req EXCEPT !.ec = report_id, !.result = "success"]
             /\ UNCHANGED <<jobs, exitVars, qualityVars, sampling, registryVars,
                            job_dimensions, evaluation>>

measurement_report_edit(user, report_id, actual) ==
    LET req == [NoRequest EXCEPT !.op = "measurement_report_edit", !.user = user,
                                 !.ec = report_id, !.arg = actual]
    IN  IF report_id \notin 1..Len(measurement_reports)
        THEN /\ last' = [req EXCEPT !.result = "not_found"]
             /\ UNCHANGED <<jobs, audit_logs, exitVars, qualityVars, sampling,
                            registryVars, measureVars>>
        ELSE LET dimensions == DimensionsOf(measurement_reports[report_id].job_id)
                 written == UpsertMeasurements(measurements, report_id, dimensions,
                                               actual, 1)
             IN  /\ measurements' = written
                 /\ measurement_reports' =
                        [measurement_reports EXCEPT
                            ![report_id].overall_status =
                                EditStatus(dimensions, actual)]
                 /\ last' = [req EXCEPT
                                !.job = measurement_reports[report_id].job_id,
                                !.result = "success"]
                 /\ UNCHANGED <<jobs, audit_logs, exitVars, qualityVars, sampling,
                                registryVars, job_dimensions, evaluation>>

ReportIds == 1..MaxReports

NextMeasure ==
    \/ \E u \in LotUsers, q \in ErrJobQuantities, d \in DimensionForms :
            job_create_form(u, "X-1", "", "", q, d)
    \/ \E u \in LotUsers, j \in JobIds, a \in ActualForms :
            measurement_report_create(u, j, a)
    \/ \E u \in LotUsers, r \in ReportIds, a \in ActualForms :
            measurement_report_edit(u, r, a)

SpecMeasure == Init /\ [][NextMeasure]_vars

\* exit controls of lots of two parts, of one part and of a negative number
\* of parts
NextEmptyLot ==
    Requests(LotUsers, ErrJobQuantities, EmptyLotQuantities, CheckStageInputs,
             CheckInputs, {<<>>})

SpecEmptyLot == Init /\ [][NextEmptyLot]_vars

(***************************************************************************)
(* Properties                                                              *)
(***************************************************************************)
\* the eight stages of the job lifecycle
EightStages == {"po_receipt", "revision_check", "material_control", "in_process",
                "external_process", "exit_control", "complete", "on_hold"}

\* the samples of a lot, their verdicts
LotSamples(smps, e) == {i \in 1..Len(smps) : smps[i].exit_control_id = e}
LotRecorded(smps, e) == \A i \in LotSamples(smps, e) : smps[i].overall_pass # NULL
LotAllPass(smps, e) == \A i \in LotSamples(smps, e) : smps[i].overall_pass = <<1>>
LotSomeFail(smps, e) == \E i \in LotSamples(smps, e) : smps[i].overall_pass = <<0>>

\* the request just handled was a sample recording that found its sample
Recorded == last'.op = "exit_control_record_sample" /\ last'.result # "not_found"

\* C1: in every reachable state a job's completed_at is set if and only if
\* its workflow_stage is complete.
C1_CompletedAtIffComplete ==
    \A j \in 1..Len(jobs) :
        (jobs[j].completed_at # NULL) <=> (jobs[j].workflow_stage = "complete")

\* C2: when recording a sample makes a lot pass, the parent job moves to
\* complete with completed_at set if its stage is exit_control, and keeps its
\* workflow_stage and completed_at if it is in any other stage.
C2_PassCompletesOnlyFromExitControl ==
    [][(Recorded /\ LotRecorded(exit_control_samples', last'.ec)
                 /\ LotAllPass(exit_control_samples', last'.ec))
        => LET j == exit_controls[last'.ec].job_id
           IN  IF jobs[j].workflow_stage = "exit_control"
               THEN /\ jobs'[j].workflow_stage = "complete"
                    /\ jobs'[j].completed_at # NULL
               ELSE /\ jobs'[j].workflow_stage = jobs[j].workflow_stage
                    /\ jobs'[j].completed_at = jobs[j].completed_at]_vars

\* a lot passed by a sample recording completed its job: no stage request and
\* no manual completion moved the job to complete
C2_Witness ==
    /\ last.op = "exit_control_record_sample"
    /\ last.result = "success"
    /\ exit_controls[last.ec].overall_status = "passed"
    /\ jobs[last.job].workflow_stage = "complete"
    /\ jobs[last.job].completed_at # NULL
    /\ \A k \in 1..Len(audit_logs) :
            /\ audit_logs[k].description # <<"completed">>
            /\ audit_logs[k].action = "status_change"
                    => audit_logs[k].description[4] # "complete"

\* C3: when a sample recording leaves every sample of the lot with a verdict,
\* the lot becomes passed if every sample passed and failed if some sample
\* failed; when it becomes failed the job's workflow_stage is unchanged.
C3_LotVerdict ==
    [][(Recorded /\ LotRecorded(exit_control_samples', last'.ec))
        => LET e == last'.ec
               j == exit_controls[e].job_id
           IN  /\ LotAllPass(exit_control_samples', e)
                    => exit_controls'[e].overall_status = "passed"
               /\ LotSomeFail(exit_control_samples', e)
                    => /\ exit_controls'[e].overall_status = "failed"
                       /\ jobs'[j].workflow_stage = jobs[j].workflow_stage]_vars

\* a recording completed a lot of two samples with a failed sample: the lot is
\* failed and the job still in exit_control
C3_Witness ==
    /\ last.op = "exit_control_record_sample"
    /\ last.result # "not_found"
    /\ Cardinality(LotSamples(exit_control_samples, last.ec)) = 2
    /\ LotRecorded(exit_control_samples, last.ec)
    /\ LotSomeFail(exit_control_samples, last.ec)
    /\ exit_controls[last.ec].overall_status = "failed"
    /\ jobs[last.job].workflow_stage = "exit_control"

\* C4: an exit control that has a sample without a verdict has overall_status
\* in_progress.
C4_UnrecordedIsInProgress ==
    \A e \in 1..Len(exit_controls) :
        ~LotRecorded(exit_control_samples, e)
            => exit_controls[e].overall_status = "in_progress"

\* C5: manual completion of an exit control with a sample without a verdict is
\* rejected and leaves the lot's overall_status and the job unchanged.
C5_IncompleteSamplingRejected ==
    [][(/\ last'.op = "exit_control_complete"
        /\ last'.ec \in 1..Len(exit_controls)
        /\ ~LotRecorded(exit_control_samples, last'.ec))
        => /\ last'.result = "error"
           /\ exit_controls' = exit_controls
           /\ jobs' = jobs
           /\ exit_control_samples' = exit_control_samples]_vars

\* a manual completion was rejected on a lot with one sample recorded and one not
C5_Witness ==
    /\ last.op = "exit_control_complete"
    /\ last.result = "error"
    /\ \E i \in LotSamples(exit_control_samples, last.ec) :
            exit_control_samples[i].overall_pass = NULL
    /\ \E i \in LotSamples(exit_control_samples, last.ec) :
            exit_control_samples[i].overall_pass # NULL
    /\ exit_controls[last.ec].overall_status = "in_progress"

\* C6: on a lot whose samples all have a verdict, manual completion leaves the
\* lot status and the job as the recomputation of sample recording would from
\* the same state: the job moves to complete only when the lot passes and the
\* job's stage is exit_control.
C6_CompleteLikeRecompute ==
    [][(/\ last'.op = "exit_control_complete"
        /\ last'.ec \in 1..Len(exit_controls)
        /\ LotRecorded(exit_control_samples, last'.ec))
        => LET e == last'.ec
               j == exit_controls[e].job_id
               pass == LotAllPass(exit_control_samples, e)
           IN  /\ exit_controls'[e].overall_status = IF pass THEN "passed" ELSE "failed"
               /\ jobs'[j] = IF pass /\ jobs[j].workflow_stage = "exit_control"
                             THEN [jobs[j] EXCEPT !.workflow_stage = "complete",
                                                  !.completed_at = CURRENT_TIMESTAMP]
                             ELSE jobs[j]]_vars

\* C7: after two interleaved sample recordings on one exit control have both
\* finished, the lot is passed only if every sample passed, it is failed if
\* all samples are recorded and one failed, and the job is complete only if
\* the lot is passed.
C7_ConcurrentVerdictConsistent ==
    (\A r \in ReqIds : reqs[r].pc = "done" /\ reqs[r].ec_id = 1)
        => /\ exit_controls[1].overall_status = "passed"
                => LotAllPass(exit_control_samples, 1)
           /\ (LotRecorded(exit_control_samples, 1) /\ LotSomeFail(exit_control_samples, 1))
                => exit_controls[1].overall_status = "failed"
           /\ jobs[1].workflow_stage = "complete"
                => exit_controls[1].overall_status = "passed"

\* C8: a stage request naming none of the eight stages is rejected and leaves
\* the job's workflow_stage, completed_at and audit trail unchanged.
C8_InvalidStageRejected ==
    [][(/\ last'.op = "job_update_stage"
        /\ last'.job \in 1..Len(jobs)
        /\ last'.arg[1] \notin EightStages)
        => /\ last'.result = "error"
           /\ jobs' = jobs
           /\ audit_logs' = audit_logs]_vars

\* the stage "shipped" was refused for a completed job
C8_Witness ==
    /\ last.op = "job_update_stage"
    /\ last.arg = <<"shipped">>
    /\ last.result = "error"
    /\ last.job \in 1..Len(jobs)
    /\ jobs[last.job].workflow_stage = "complete"

\* C9: a stage request naming one of the eight stages is accepted whatever
\* the current stage and leaves the job in the requested stage.
C9_AnyStageAccepted ==
    [][(/\ last'.op = "job_update_stage"
        /\ last'.job \in 1..Len(jobs)
        /\ last'.arg[1] \in EightStages)
        => /\ last'.result = "success"
           /\ jobs[last'.job].workflow_stage \in EightStages
           /\ jobs'[last'.job].workflow_stage = last'.arg[1]]_vars

\* a job on hold was moved from on_hold to complete
C9_Witness ==
    /\ last.op = "job_update_stage"
    /\ last.result = "success"
    /\ jobs[last.job].workflow_stage = "complete"
    /\ audit_logs[Len(audit_logs)].description =
            <<"Changed stage from", "on_hold", "to", "complete">>

\* C10: every change of a job's workflow_stage appends an audit entry for
\* that job that records the old stage, the new stage and the actor.
C10_StageChangeAudited ==
    [][\A j \in 1..Len(jobs) :
        jobs'[j].workflow_stage # jobs[j].workflow_stage
            => /\ Len(audit_logs') = Len(audit_logs) + 1
               /\ LET e == audit_logs'[Len(audit_logs')]
                  IN  /\ e.entity_type = "job"
                      /\ e.entity_id = j
                      /\ e.user_id = last'.user
                      /\ InSeq(jobs[j].workflow_stage, e.description)
                      /\ InSeq(jobs'[j].workflow_stage, e.description)]_vars

\* the base plan of a lot of n parts as a set: the first five parts, and the
\* parts 15, 25, 35, ... up to n
BasePlan(n) == {p \in 1..n : p <= 5 \/ (p >= 15 /\ p % 10 = 5)}

\* C11: for every lot quantity n >= 1 the sample positions are 1..min(5, n)
\* followed, when n > 5, by 15, 25, 35, ... up to n, in strictly increasing
\* order without duplicates; the positions 6 to 14 are never included.
C11_SamplePositions ==
    sampling.done
        => LET s == sampling.samples
               n == sampling.lot_quantity
           IN  /\ {s[i] : i \in 1..Len(s)} = BasePlan(n)
               /\ \A i \in 1..Min(5, n) : s[i] = i
               /\ \A i \in 1..(Len(s) - 1) : s[i] < s[i + 1]
               /\ \A i \in 1..Len(s) : s[i] \notin 6..14

\* the plan of a lot of 25 parts was computed
C11_Witness ==
    /\ sampling.done
    /\ sampling.lot_quantity = 25
    /\ sampling.samples = <<1, 2, 3, 4, 5, 15, 25>>

\* the part numbers sampled in a lot
Positions(smps, e) == {smps[i].part_number : i \in LotSamples(smps, e)}

\* C12: the sample positions of an exit control are pairwise distinct and lie
\* in 1..lot_quantity after creation and after every add-samples request; an
\* add-samples request appends one unrecorded sample for each requested
\* position that is new and in range, none for a position that exists or is
\* out of range, and changes nothing else.
C12_AddedSamplesDistinctInRange ==
    /\ [](\A e \in 1..Len(exit_controls) :
            /\ \A i, k \in LotSamples(exit_control_samples, e) :
                    exit_control_samples[i].part_number
                        = exit_control_samples[k].part_number => i = k
            /\ \A p \in Positions(exit_control_samples, e) :
                    1 <= p /\ p <= exit_controls[e].lot_quantity)
    /\ [][(/\ last'.op = "exit_control_add_samples"
            /\ last'.ec \in 1..Len(exit_controls))
            => LET e == last'.ec
                   asked == {last'.arg[i] : i \in 1..Len(last'.arg)}
                   accepted == {p \in asked :
                                   /\ p \notin Positions(exit_control_samples, e)
                                   /\ 1 <= p
                                   /\ p <= exit_controls[e].lot_quantity}
                   old == Len(exit_control_samples)
               IN  /\ Len(exit_control_samples') = old + Cardinality(accepted)
                   /\ SubSeq(exit_control_samples', 1, old) = exit_control_samples
                   /\ \A i \in (old + 1)..Len(exit_control_samples') :
                        /\ exit_control_samples'[i].exit_control_id = e
                        /\ exit_control_samples'[i].overall_pass = NULL
                   /\ Positions(exit_control_samples', e)
                        = Positions(exit_control_samples, e) \cup accepted
                   /\ jobs' = jobs
                   /\ exit_controls' = exit_controls
                   /\ audit_logs' = audit_logs]_vars

\* positions 3, 6 and 6 were requested for a lot of six parts: of the three
\* only one sample, part 6, was added to the five of the base plan
C12_Witness ==
    /\ last.op = "exit_control_add_samples"
    /\ last.arg = <<3, 6, 6>>
    /\ last.result = "success"
    /\ exit_controls[last.ec].lot_quantity = 6
    /\ Positions(exit_control_samples, last.ec) = 1..6
    /\ Cardinality(LotSamples(exit_control_samples, last.ec)) = 6

\* C13: recording a sample stores overall_pass true exactly when the three
\* checks are all true and false for the seven other combinations, with the
\* three checks as given; recording a sample again overwrites its verdict by
\* the same rule, and no other sample is written.
C13_OverallPassIsStrictAnd ==
    [][Recorded
        => LET c == last'.arg
               s == exit_control_samples'[last'.sample]
           IN  /\ s.overall_pass = <<IF c = <<1, 1, 1>> THEN 1 ELSE 0>>
               /\ s.dimensions_ok = <<c[1]>>
               /\ s.visual_ok = <<c[2]>>
               /\ s.surface_ok = <<c[3]>>
               /\ Len(exit_control_samples') = Len(exit_control_samples)
               /\ \A i \in 1..Len(exit_control_samples) :
                    i # last'.sample
                        => exit_control_samples'[i] = exit_control_samples[i]]_vars

\* the only sample of a lot was recorded as passed, which completed the job,
\* and recorded again with the visual check failed: its verdict is now false
C13_Witness ==
    /\ last.op = "exit_control_record_sample"
    /\ last.arg = <<1, 0, 1>>
    /\ last.result = "warning"
    /\ exit_control_samples[last.sample].overall_pass = <<0>>
    /\ exit_control_samples[last.sample].visual_ok = <<0>>
    /\ Cardinality(LotSamples(exit_control_samples, last.ec)) = 1
    /\ jobs[last.job].workflow_stage = "complete"

\* the request just handled created an error report
ReportCreated == Len(error_reports') = Len(error_reports) + 1

\* the user is active and holds a quality-oversight role
QualityUser(u) == u.active = 1 /\ u.role \in {"quality_manager", "admin"}

\* the status changes of an error report that are allowed
AllowedStatusChanges ==
    {<<"open", "investigating">>, <<"open", "resolved">>,
     <<"investigating", "resolved">>, <<"resolved", "closed">>}

\* C14: every change of the status of an error report is open to
\* investigating, open to resolved, investigating to resolved, resolved to
\* closed, or a change from any status to open.
C14_StatusTransitions ==
    [][\A e \in 1..Len(error_reports) :
        error_reports'[e].status # error_reports[e].status
            => \/ <<error_reports[e].status, error_reports'[e].status>>
                    \in AllowedStatusChanges
               \/ error_reports'[e].status = "open"]_vars

\* C15: reopening an error report, whatever its status, leaves it open with
\* resolved_date and closed_date cleared; its other columns and the other
\* error reports are unchanged.
C15_ReopenClearsDates ==
    [][(/\ last'.op = "error_report_update"
        /\ last'.arg = <<"reopen">>
        /\ last'.ec \in 1..Len(error_reports))
        => error_reports' =
                [error_reports EXCEPT ![last'.ec].status = "open",
                                      ![last'.ec].resolved_date = NULL,
                                      ![last'.ec].closed_date = NULL]]_vars

\* an error report was resolved, closed and then reopened: it is open and
\* neither date is left
C15_Witness ==
    /\ last.op = "error_report_update"
    /\ last.arg = <<"reopen">>
    /\ last.ec \in 1..Len(error_reports)
    /\ error_reports[last.ec].status = "open"
    /\ error_reports[last.ec].resolved_date = NULL
    /\ error_reports[last.ec].closed_date = NULL
    /\ Len(audit_logs) >= 3
    /\ audit_logs[Len(audit_logs) - 2].description = <<"resolve">>
    /\ audit_logs[Len(audit_logs) - 1].description = <<"close">>
    /\ audit_logs[Len(audit_logs)].description = <<"reopen">>

\* C16: an update request asking to investigate an open error report leaves
\* it in status investigating.
C16_OpenToInvestigating ==
    [][(/\ last'.op = "error_report_update"
        /\ last'.arg = <<"investigate">>
        /\ last'.ec \in 1..Len(error_reports)
        /\ error_reports[last'.ec].status = "open")
        => error_reports'[last'.ec].status = "investigating"]_vars

\* no error report is ever in status investigating
NeverInvestigating ==
    \A e \in 1..Len(error_reports) : error_reports[e].status # "investigating"

\* C17: a supplier error report created against a material control or an
\* external process leaves that origin record in status rejected.
C17_SupplierReportRejectsOrigin ==
    [][ReportCreated
        => /\ last'.op = "material_error_report"
                => material_controls'[last'.arg[1]].status = "rejected"
           /\ last'.op = "external_error_report"
                => external_processes'[last'.arg[1]].status = "rejected"]_vars

\* C18: a created error report has status open; from internal_error_report it
\* has error_type internal and the job reported on; from a material control
\* (an external process) it has error_type material_supplier
\* (external_supplier), the job and the supplier of that origin record, and
\* the link to it.
C18_CreatedReportFields ==
    [][ReportCreated
        => LET r == error_reports'[Len(error_reports')]
           IN  /\ r.status = "open"
               /\ SubSeq(error_reports', 1, Len(error_reports)) = error_reports
               /\ last'.op \in {"internal_error_report", "material_error_report",
                                "external_error_report"}
               /\ last'.op = "internal_error_report"
                    => /\ r.error_type = "internal"
                       /\ r.job_id = last'.job
               /\ last'.op = "material_error_report"
                    => LET origin == material_controls[last'.arg[1]]
                       IN  /\ r.error_type = "material_supplier"
                           /\ r.job_id = origin.job_id
                           /\ r.supplier_id = origin.supplier_id
                           /\ r.material_control_id = <<last'.arg[1]>>
               /\ last'.op = "external_error_report"
                    => LET origin == external_processes[last'.arg[1]]
                       IN  /\ r.error_type = "external_supplier"
                           /\ r.job_id = origin.job_id
                           /\ r.supplier_id = origin.supplier_id
                           /\ r.external_process_id = <<last'.arg[1]>>]_vars

\* a supplier error report was created from a material control of supplier s1
C18_Witness ==
    /\ last.op = "material_error_report"
    /\ last.ec \in 1..Len(error_reports)
    /\ error_reports[last.ec].error_type = "material_supplier"
    /\ error_reports[last.ec].status = "open"
    /\ error_reports[last.ec].supplier_id = <<"s1">>
    /\ error_reports[last.ec].material_control_id = <<last.arg[1]>>
    /\ material_controls[last.arg[1]].supplier_id = <<"s1">>

\* C19: when an error report is created and every notification is written,
\* the notifications added are one for each active quality manager or admin
\* and none for any other user, each linked to the new error report.
C19_OneNotificationPerQualityUser ==
    [][(ReportCreated /\ last'.arg[2] = 0)
        => LET old == Len(notifications)
               added == (old + 1)..Len(notifications')
           IN  /\ SubSeq(notifications', 1, old) = notifications
               /\ \A i \in added :
                    /\ notifications'[i].entity_type = "error_report"
                    /\ notifications'[i].entity_id = Len(error_reports')
               /\ \A k \in 1..Len(users) :
                    Cardinality({i \in added :
                                    notifications'[i].user_id = users[k].id})
                        = IF QualityUser(users[k]) THEN 1 ELSE 0]_vars

\* an error report was created while the quality manager was inactive: the
\* admin alone was notified of it
C19_Witness ==
    /\ last.op \in {"internal_error_report", "material_error_report"}
    /\ last.arg[2] = 0
    /\ last.ec = Len(error_reports)
    /\ \E k \in 1..Len(users) :
            users[k].role = "quality_manager" /\ users[k].active = 0
    /\ notifications = <<Notification("admin", "error_report", "error_report", last.ec)>>

\* C20: when the write of one notification fails while an error report is
\* created, the error report exists, a material control it was created from
\* is rejected, and every other active quality manager or admin has a
\* notification of it.
C20_NotificationFailureTolerated ==
    [][(/\ last'.op \in {"internal_error_report", "material_error_report"}
        /\ last'.result \notin {"not_found", "error"}
        /\ last'.arg[2] # 0)
        => LET recipients == get_quality_notification_users(users)
           IN  /\ ReportCreated
               /\ last'.op = "material_error_report"
                    => material_controls'[last'.arg[1]].status = "rejected"
               /\ \A k \in 1..Len(recipients) :
                    k # last'.arg[2]
                        => \E i \in 1..Len(notifications') :
                            /\ notifications'[i].user_id = recipients[k]
                            /\ notifications'[i].entity_id = Len(error_reports')]_vars

\* C21: a call of get_or_create_part for a part number stored with revision
\* '' finds that part whether the revision is given as '' or as None: it
\* returns the stored part's id with was_created false and inserts nothing;
\* a description that is neither None nor '' replaces the stored one, None
\* or '' leaves the stored description as it is.
C21_SamePartForEmptyAndNone ==
    [][(/\ last'.op = "get_or_create_part"
        /\ last'.arg[2] \in {NULL, <<"">>}
        /\ PartsWith(parts, last'.arg[1], "") # {})
       => LET id == FirstOf(PartsWith(parts, last'.arg[1], ""))
          IN  /\ last'.part = id
              /\ last'.result = "existing"
              /\ Len(parts') = Len(parts)
              /\ parts'[id].part_description =
                     IF last'.arg[3] \in {NULL, <<"">>}
                     THEN parts[id].part_description
                     ELSE last'.arg[3]]_vars

\* part X-1 without revision described as d2 after a call with revision None
C21_Witness ==
    /\ last.op = "get_or_create_part"
    /\ last.arg = <<"X-1", NULL, <<"d2">> >>
    /\ last.result = "existing"
    /\ \E i \in 1..Len(parts) : /\ parts[i].part_revision = ""
                                 /\ parts[i].part_description = <<"d2">>
                                 /\ last.part = i

\* C22: whatever calls of get_or_create_part are made, on their own or by
\* job_create and job_edit, no two parts have the same part_number and
\* revision (stored normalized: None as ''), and every existing part keeps
\* its part_number and revision in every step; only descriptions change.
C22_PartIdentityUniqueAndFixed ==
    /\ [](\A i, j \in 1..Len(parts) :
            (/\ parts[i].part_number = parts[j].part_number
             /\ parts[i].part_revision = parts[j].part_revision) => i = j)
    /\ [][\A i \in 1..Len(parts) :
            /\ i <= Len(parts')
            /\ parts'[i].part_number = parts[i].part_number
            /\ parts'[i].part_revision = parts[i].part_revision]_vars

\* two parts, the second found again by a job edit that described it anew
C22_Witness ==
    /\ Len(parts) = 2
    /\ last.op = "job_edit"
    /\ last.result = "success"
    /\ last.part = 2
    /\ parts[2].part_description = <<"d2">>

\* C23: of two calls of get_or_create_part running at once for a part not
\* stored yet, none ends with a conflict error: every finished call returns
\* the id of the one part with its number and revision.
C23_ConcurrentCallsBothResolve ==
    \A c \in CallIds :
        resolving[c].pc = "done"
            => /\ resolving[c].result \in {"created", "existing"}
               /\ PartsWith(parts, resolving[c].part_number,
                            resolving[c].part_revision[1]) = {resolving[c].part_id}

\* C24: in every reachable state every job has a part_id that is the id of
\* an existing part, and the job's part_number and revision (None counted
\* as '') are that part's part_number and revision.
C24_JobReferencesItsPart ==
    \A j \in 1..Len(jobs) :
        /\ jobs[j].part_id # NULL
        /\ jobs[j].part_id[1] \in 1..Len(parts)
        /\ parts[jobs[j].part_id[1]].part_number = jobs[j].part_number
        /\ parts[jobs[j].part_id[1]].part_revision = or_empty(jobs[j].part_revision)

\* the value of a decimal numeral in tenths, as a number of tenths
InTenths(decimal) == IF decimal.neg THEN 0 - decimal.num ELSE decimal.num

\* C25: a go/nogo dimension evaluates to pass exactly when the actual value
\* is 1, whatever its nominal value and whether or not it has tolerances.
C25_GoNoGoPassIffOne ==
    (evaluation.done /\ evaluation.unit = "go/nogo")
        => (evaluation.result = "pass" <=> InTenths(evaluation.actual) = 10)

\* a go/nogo dimension of nominal 0.3 with both tolerances, passed at 1
C25_Witness ==
    /\ evaluation.done
    /\ evaluation.unit = "go/nogo"
    /\ InTenths(evaluation.nominal) = 3
    /\ evaluation.tolerance_plus # NULL
    /\ evaluation.tolerance_minus # NULL
    /\ InTenths(evaluation.actual) = 10
    /\ evaluation.result = "pass"

\* C26: a dimension that is not go/nogo evaluates, when it has both
\* tolerances, to pass exactly when nominal + tolerance_minus <= actual <=
\* nominal + tolerance_plus, the two limits included; when a tolerance is
\* absent it evaluates to pass.
C26_WithinToleranceInclusive ==
    (evaluation.done /\ evaluation.unit # "go/nogo")
        => IF evaluation.tolerance_plus # NULL /\ evaluation.tolerance_minus # NULL
           THEN evaluation.result = "pass"
                    <=> /\ InTenths(evaluation.nominal)
                               + InTenths(evaluation.tolerance_minus[1])
                           <= InTenths(evaluation.actual)
                        /\ InTenths(evaluation.actual)
                           <= InTenths(evaluation.nominal)
                               + InTenths(evaluation.tolerance_plus[1])
           ELSE evaluation.result = "pass"

\* the stored state: every table
tables == <<jobs, exit_controls, exit_control_samples, audit_logs, users,
            material_controls, external_processes, error_reports, notifications,
            parts, job_dimensions, measurement_reports, measurements>>

\* C27: a supplier error report whose request ends with an uncaught database
\* error (response 500) leaves every table as it was before the request:
\* none of the writes made before the failing one remains.
C27_FailedRequestLeavesNoWrite ==
    [][(/\ last'.op \in {"material_error_report", "external_error_report"}
        /\ last'.result = "500")
       => UNCHANGED tables]_vars

\* C28: in every reachable state the status of a material control is one of
\* pending, approved, rejected and the status of an external process is one
\* of sent, received, approved, rejected.
C28_OriginStatusInItsSet ==
    /\ \A m \in 1..Len(material_controls) :
            material_controls[m].status \in {"pending", "approved", "rejected"}
    /\ \A e \in 1..Len(external_processes) :
            external_processes[e].status \in {"sent", "received", "approved", "rejected"}

\* the stored measurements of a report
StoredOf(report_id) ==
    {i \in 1..Len(measurements) : measurements[i].report_id = report_id}

\* C29: in every reachable state a measurement report is pending exactly
\* when it has no stored measurement, fail exactly when one of its stored
\* measurements has pass_fail = fail, and pass otherwise.
C29_OverallStatusMatchesMeasurements ==
    \A r \in 1..Len(measurement_reports) :
        measurement_reports[r].overall_status =
            IF StoredOf(r) = {}
            THEN "pending"
            ELSE IF \E i \in StoredOf(r) : measurements[i].pass_fail = "fail"
            THEN "fail"
            ELSE "pass"

\* C30: in every reachable state an exit control that is passed has at
\* least one sample and all its samples are recorded as pass.
C30_PassedLotHasPassedSamples ==
    \A e \in 1..Len(exit_controls) :
        exit_controls[e].overall_status = "passed"
            => /\ SamplesOf(exit_control_samples, e) # {}
               /\ all_passed(exit_control_samples, e)
====
